---- MODULE Spec2Model ----
(***************************************************************************)
(* movieclipper: the movie index cache (load / validate / rebuild / save / *)
(* invalidate), the directory scanner behind it and the fuzzy matcher,     *)
(* modelled from src/movieclipper/cli.py.                                  *)
(***************************************************************************)
EXTENDS Integers, Sequences, FiniteSets, TLC

VARIABLES
    fs,        \* the file system under the movie roots: [Paths -> kind]
    now,       \* time.time(), in seconds
    config,    \* the process-wide configuration singleton (cli.config)
    files,     \* the cache files on disk: [Locations -> content]
    medium,    \* the state of the storage behind each cache location
    pc,        \* position of the running find_movie_files invocation
    pending,   \* locals of the running invocation
    last,      \* what the last completed operation did and returned
    arg,       \* inputs of the pure function under check
    ret        \* its result

vars == <<fs, now, config, files, medium, pc, pending, last, arg, ret>>

cacheVars == <<fs, now, config, files, medium, pc, pending, last>>

(***************************************************************************)
(* Bounds of the model.                                                    *)
(***************************************************************************)
MaxHours == 1      \* the clock runs over 0 .. MaxHours hours (+ 1 second)
MaxTtl == 1        \* cache_ttl_hours ranges over 1 .. MaxTtl

(***************************************************************************)
(* Program constants.                                                      *)
(***************************************************************************)
SecondsPerHour == 3600
ScoreThreshold == 60

None == [kind |-> "None"]

NoLocation == "None"

(***************************************************************************)
(* The file system.  A path is a number; the numbers are in the order in   *)
(* which pathlib sorts the paths they stand for:                           *)
(*   1 /m/A.mkv   2 /m/B.MP4   3 /m/L/C.mkv   4 /m/notes.txt   5 /n/D.mkv  *)
(* /m/L is a symlink to a directory.  fs[p] is "none" (no such entry),     *)
(* "file" (regular file), "link" (symlink to a regular file) or "broken"   *)
(* (dangling symlink).                                                     *)
(***************************************************************************)
Paths == {1, 2, 3, 4, 5}

Roots == {"/m", "/n"}

RootOf(p) == IF p = 5 THEN "/n" ELSE "/m"

SuffixOf(p) == CASE p = 2 -> ".MP4" [] p = 4 -> ".txt" [] OTHER -> ".mkv"

UnderLinkedDir(p) == p = 3

KindsOf(p) ==
    CASE p = 1 -> {"none", "file"}
      [] p = 2 -> {"link"}
      [] p = 3 -> {"file", "broken"}
      [] OTHER -> {"file"}

Lower(s) == CASE s = ".MP4" -> ".mp4" [] s = ".MKV" -> ".mkv" [] OTHER -> s

Exists(f, p) == f[p] \in {"file", "link"}

IsSymlink(f, p) == f[p] \in {"link", "broken"}

CanStat(f, p) == f[p] \in {"file", "link"}

RECURSIVE SortedSeqOf(_)
SortedSeqOf(S) ==
    IF S = {} THEN <<>>
    ELSE LET m == CHOOSE x \in S : \A y \in S : x <= y
         IN  <<m>> \o SortedSeqOf(S \ {m})

RECURSIVE Insert(_, _)
Insert(x, s) ==
    IF s = <<>> THEN <<x>>
    ELSE IF x < Head(s) THEN <<x>> \o s
    ELSE <<Head(s)>> \o Insert(x, Tail(s))

RECURSIVE Sorted(_)
Sorted(s) == IF s = <<>> THEN <<>> ELSE Insert(s[Len(s)], Sorted(SubSeq(s, 1, Len(s) - 1)))

Range(s) == {s[i] : i \in 1..Len(s)}

\* iter_movie_files: os.walk lists every entry that is not a directory,
\* dangling symlinks included, and descends into /m/L only when following.
IterMovieFiles(f, movies_dir, extensions, follow_symlinks) ==
    LET extensions_lower == {Lower(extensions[i]) : i \in 1..Len(extensions)}
        walked == {p \in Paths : /\ f[p] # "none"
                                 /\ RootOf(p) = movies_dir
                                 /\ (UnderLinkedDir(p) => follow_symlinks)}
        movie_files == {p \in walked :
                          /\ Lower(SuffixOf(p)) \in extensions_lower
                          /\ ~(~follow_symlinks /\ IsSymlink(f, p))}
    IN  SortedSeqOf(movie_files)

(***************************************************************************)
(* Cache records.  A JSON object is a record with the set of the keys it   *)
(* holds; a field outside keys is not in the object.                       *)
(***************************************************************************)
RequiredKeys == {"timestamp", "movies_dir", "movies", "extensions", "follow_symlinks"}

Entry(p) == [path |-> p, size |-> p * 100, mtime |-> 0]

PathsOf(rec) == [i \in 1..Len(rec.movies) |-> rec.movies[i].path]

\* build_movie_cache that keeps the files whose stat failed
BuildMovieCache_KeepsUnstatable(f, t, movies_dir, extensions, follow_symlinks) ==
    LET scanned == IterMovieFiles(f, movies_dir, extensions, follow_symlinks)
    IN  [keys |-> RequiredKeys,
         timestamp |-> t,
         movies_dir |-> movies_dir,
         follow_symlinks |-> follow_symlinks,
         extensions |-> extensions,
         movies |-> [i \in 1..Len(scanned) |-> Entry(scanned[i])]]

\* build_movie_cache
BuildMovieCache(f, t, movies_dir, extensions, follow_symlinks) ==
    LET scanned == IterMovieFiles(f, movies_dir, extensions, follow_symlinks)
        Statable(p) == CanStat(f, p)
        kept == SelectSeq(scanned, Statable)
    IN  [keys |-> RequiredKeys,
         timestamp |-> t,
         movies_dir |-> movies_dir,
         follow_symlinks |-> follow_symlinks,
         extensions |-> extensions,
         movies |-> [i \in 1..Len(kept) |-> Entry(kept[i])]]

\* the age in whole hours (// for /)
AgeExceeds_WholeHours(age, ttl_hours) == (age \div SecondsPerHour) > ttl_hours

\* cache_age_hours > cache_ttl_hours, with cache_age_hours the true quotient
\* (now - timestamp) / 3600
AgeExceeds(age, ttl_hours) == age > ttl_hours * SecondsPerHour

\* is_cache_valid without the comparison of follow_symlinks
IsCacheValid_IgnoresSymlinkFlag(cache_data, movies_dir, config_value, t) ==
    IF cache_data.keys = {} THEN FALSE
    ELSE IF ~(RequiredKeys \subseteq cache_data.keys) THEN FALSE
    ELSE IF cache_data.movies_dir # movies_dir THEN FALSE
    ELSE IF cache_data.extensions # config_value.video_extensions THEN FALSE
    ELSE IF AgeExceeds(t - cache_data.timestamp, config_value.cache_ttl_hours) THEN FALSE
    ELSE TRUE

\* is_cache_valid
IsCacheValid(cache_data, movies_dir, config_value, t) ==
    IF cache_data.keys = {} THEN FALSE
    ELSE IF ~(RequiredKeys \subseteq cache_data.keys) THEN FALSE
    ELSE IF cache_data.movies_dir # movies_dir THEN FALSE
    ELSE IF cache_data.extensions # config_value.video_extensions THEN FALSE
    ELSE IF cache_data.follow_symlinks # config_value.follow_symlinks THEN FALSE
    ELSE IF AgeExceeds(t - cache_data.timestamp, config_value.cache_ttl_hours) THEN FALSE
    ELSE TRUE

(***************************************************************************)
(* Configurations.  cache_location is NoLocation when the setting is None. *)
(***************************************************************************)
E1 == <<".mkv">>
E2 == <<".mkv", ".mp4">>
E3 == <<".mp4", ".mkv">>

Times == {0} \cup {h * SecondsPerHour + e : h \in 1..MaxHours, e \in {0, 1}}

ConfigsOver(dirs, exts, enabled, ttls, locations) ==
    [movies_dir : dirs,
     video_extensions : exts,
     follow_symlinks : BOOLEAN,
     cache_enabled : enabled,
     cache_ttl_hours : ttls,
     cache_location : locations]

Configs == ConfigsOver(Roots, {E1, E2}, BOOLEAN, 1..MaxTtl, {NoLocation})

(***************************************************************************)
(* The cache file.  Its content is absent ("none"), a complete record, or  *)
(* text that is not one: "partial" (a proper prefix of a dump, the empty   *)
(* prefix included), "garbage" (not JSON), "binary" (bytes that are not    *)
(* UTF-8) or "nonobject" (JSON that is no object, such as [1]).            *)
(* The storage behind a location is "ok", "nodir" (the directory cannot be *)
(* created), "noread" (the file cannot be opened for reading), "readonly"  *)
(* (nothing can be opened for writing or removed) or "full" (a file can be *)
(* opened for writing, the write fails).                                   *)
(***************************************************************************)
Locations == {"new", "old", "custom"}

Absent == [kind |-> "none"]

RecordFile(rec) == [kind |-> "record", rec |-> rec]

EmptyObject == [keys |-> {}]

\* get_cache_path: the location, and whether cache_dir.mkdir raised
GetCachePath(config_value, fl, md) ==
    LET cache_dir ==
            IF config_value.cache_location # NoLocation THEN config_value.cache_location
            ELSE IF fl["new"].kind = "none" /\ fl["old"].kind # "none" THEN "old"
            ELSE "new"
    IN  [raised |-> md[cache_dir] = "nodir", path |-> cache_dir]

\* load_movie_cache that does not catch json.JSONDecodeError
LoadMovieCache_RaisesOnBadJson(singleton, fl, md) ==
    LET cache_path == GetCachePath(singleton, fl, md)
        content == fl[cache_path.path]
    IN  IF cache_path.raised THEN [raised |-> TRUE, value |-> None, path |-> cache_path.path]
        ELSE IF content.kind = "none" THEN [raised |-> FALSE, value |-> None, path |-> cache_path.path]
        ELSE IF md[cache_path.path] = "noread"
             THEN [raised |-> FALSE, value |-> None, path |-> cache_path.path]
        ELSE IF content.kind \in {"partial", "garbage", "binary"}
             THEN [raised |-> TRUE, value |-> None, path |-> cache_path.path]
        ELSE [raised |-> FALSE, value |-> content, path |-> cache_path.path]

\* load_movie_cache: it takes no configuration and asks get_cache_path()
\* for the path of the singleton's
LoadMovieCache(singleton, fl, md) ==
    LET cache_path == GetCachePath(singleton, fl, md)
        content == fl[cache_path.path]
    IN  IF cache_path.raised THEN [raised |-> TRUE, value |-> None, path |-> cache_path.path]
        ELSE IF content.kind = "none" THEN [raised |-> FALSE, value |-> None, path |-> cache_path.path]
        ELSE IF md[cache_path.path] = "noread"
             THEN [raised |-> FALSE, value |-> None, path |-> cache_path.path]
        ELSE IF content.kind \in {"partial", "garbage"}
             THEN [raised |-> FALSE, value |-> None, path |-> cache_path.path]
        ELSE IF content.kind = "binary"
             THEN [raised |-> TRUE, value |-> None, path |-> cache_path.path]
        ELSE [raised |-> FALSE, value |-> content, path |-> cache_path.path]

\* the truth value Python gives a loaded value
Truthy(value) ==
    \/ value.kind = "nonobject"
    \/ value.kind = "record" /\ value.rec.keys # {}

\* the cached entries, not filtered by path.exists()
ExistingPaths_Unfiltered(f, rec) == Sorted(PathsOf(rec))

\* find_movie_files, the cached entries that still exist
ExistingPaths(f, rec) ==
    LET movie_paths == PathsOf(rec)
        StillThere(p) == Exists(f, p)
    IN  Sorted(SelectSeq(movie_paths, StillThere))

NoOp == [op |-> "none"]

\* the cache is used whatever cache_enabled says
CacheEnabled_Always(config_value) == TRUE

\* find_movie_files, the test of the cache_enabled setting
CacheEnabled(config_value) == config_value.cache_enabled

Call(config_value, movies_dir, extensions, follow_symlinks) ==
    [op |-> "find", cv |-> config_value, dir |-> movies_dir, exts |-> extensions,
     follow |-> follow_symlinks, t |-> now, before |-> files, fsBefore |-> fs,
     singleton |-> config]

Outcome(call, kind, loads, loaded, scans, built, saved, result) ==
    [op |-> "find", cv |-> call.cv, dir |-> call.dir, exts |-> call.exts,
     follow |-> call.follow, t |-> call.t, before |-> call.before,
     fsBefore |-> call.fsBefore, singleton |-> call.singleton,
     kind |-> kind, loads |-> loads, loaded |-> loaded, scans |-> scans,
     built |-> built, saved |-> saved, result |-> result]

\* find_movie_files up to the point where save_movie_cache is entered
FindMovieFiles(config_value, movies_dir, extensions, follow_symlinks) ==
    /\ pc = "idle"
    /\ LET call == Call(config_value, movies_dir, extensions, follow_symlinks)
           ld == LoadMovieCache(config, files, medium)
       IN  IF ~CacheEnabled(config_value)
           THEN /\ last' = Outcome(call, "live", 0, None, 1, None, "none",
                                   IterMovieFiles(fs, movies_dir, extensions, follow_symlinks))
                /\ UNCHANGED <<pc, pending>>
           ELSE IF ld.raised
           THEN /\ last' = Outcome(call, "raise", 1, None, 0, None, "none", <<>>)
                /\ UNCHANGED <<pc, pending>>
           ELSE IF Truthy(ld.value) /\ ld.value.kind = "nonobject"
           THEN /\ last' = Outcome(call, "raise", 1, ld.value, 0, None, "none", <<>>)
                /\ UNCHANGED <<pc, pending>>
           ELSE IF Truthy(ld.value) /\ IsCacheValid(ld.value.rec, movies_dir, config_value, now)
           THEN /\ last' = Outcome(call, "hit", 1, ld.value, 0, None, "none",
                                   ExistingPaths(fs, ld.value.rec))
                /\ UNCHANGED <<pc, pending>>
           ELSE /\ pc' = "save_open"
                /\ pending' = [o |-> Outcome(call, "miss", 1, ld.value, 1,
                                             BuildMovieCache(fs, now, movies_dir, extensions,
                                                             follow_symlinks),
                                             "none", <<>>),
                               path |-> NoLocation]
                /\ last' = NoOp
    /\ UNCHANGED <<fs, now, config, files, medium, arg, ret>>

\* the return of find_movie_files after a rebuild
Finished(o, saved) ==
    Outcome(o, o.kind, o.loads, o.loaded, o.scans, o.built, saved, PathsOf(o.built))

Raised(o) ==
    Outcome(o, "raise", o.loads, o.loaded, o.scans, o.built, "none", <<>>)

\* save_movie_cache: get_cache_path(config_value), then open(..., "w")
SaveOpen ==
    /\ pc = "save_open"
    /\ LET cache_path == GetCachePath(pending.o.cv, files, medium)
       IN  IF cache_path.raised
           THEN /\ last' = Raised(pending.o)
                /\ pc' = "idle"
                /\ pending' = NoOp
                /\ UNCHANGED files
           ELSE IF medium[cache_path.path] = "readonly"
           THEN /\ last' = Finished(pending.o, "failed")
                /\ pc' = "idle"
                /\ pending' = NoOp
                /\ UNCHANGED files
           ELSE /\ files' = [files EXCEPT ![cache_path.path] = [kind |-> "partial"]]
                /\ pc' = "save_write"
                /\ pending' = [pending EXCEPT !.path = cache_path.path]
                /\ last' = NoOp
    /\ UNCHANGED <<fs, now, config, medium, arg, ret>>

\* the text of record a is longer than that of record b
Longer(a, b) ==
    \/ Len(a.movies) > Len(b.movies)
    \/ Len(a.movies) = Len(b.movies) /\ Len(a.extensions) > Len(b.extensions)

\* the file after the dump of cache_data from offset 0: what another
\* writer has put there since the file was opened is overwritten as far as
\* the new text reaches, and a longer text keeps its tail
Written(content, cache_data) ==
    IF content.kind = "record" /\ content.rec.keys # {} /\ Longer(content.rec, cache_data)
    THEN [kind |-> "garbage"]
    ELSE RecordFile(cache_data)

\* save_movie_cache: json.dump and the close of the file
SaveWrite ==
    /\ pc = "save_write"
    /\ IF medium[pending.path] = "full"
       THEN /\ pending' = [pending EXCEPT !.o.saved = "failed"]
            /\ UNCHANGED files
       ELSE /\ pending' = [pending EXCEPT !.o.saved = "ok"]
            /\ files' = [files EXCEPT ![pending.path] =
                                        Written(files[pending.path], pending.o.built)]
    /\ pc' = "save_return"
    /\ last' = NoOp
    /\ UNCHANGED <<fs, now, config, medium, arg, ret>>

\* find_movie_files returns the paths of the record it built
Return ==
    /\ pc = "save_return"
    /\ last' = Finished(pending.o, pending.o.saved)
    /\ pc' = "idle"
    /\ pending' = NoOp
    /\ UNCHANGED <<fs, now, config, files, medium, arg, ret>>

\* the process dies inside save_movie_cache
Crash ==
    /\ pc \in {"save_open", "save_write", "save_return"}
    /\ last' = [op |-> "crash", at |-> pc, before |-> pending.o.before,
                built |-> pending.o.built]
    /\ pc' = "idle"
    /\ pending' = NoOp
    /\ UNCHANGED <<fs, now, config, files, medium, arg, ret>>

\* the file is left where it is
Unlink_Skipped(fl, path) == fl

\* cache_path.unlink()
Unlink(fl, path) == [fl EXCEPT ![path] = Absent]

\* invalidate_movie_cache, as main runs it for --clear-cache
InvalidateMovieCache ==
    /\ pc = "idle"
    /\ LET cache_path == GetCachePath(config, files, medium)
           Done(outcome, exit) ==
               [op |-> "invalidate", before |-> files, path |-> cache_path.path,
                outcome |-> outcome, exit |-> exit]
       IN  IF cache_path.raised
           THEN /\ last' = Done("raise", 1)
                /\ UNCHANGED files
           ELSE IF files[cache_path.path].kind # "none"
           THEN IF medium[cache_path.path] = "readonly"
                THEN /\ last' = Done("warned", 0)
                     /\ UNCHANGED files
                ELSE /\ last' = Done("cleared", 0)
                     /\ files' = Unlink(files, cache_path.path)
           ELSE /\ last' = Done("nofile", 0)
                /\ UNCHANGED files
    /\ UNCHANGED <<fs, now, config, medium, pc, pending, arg, ret>>

(***************************************************************************)
(* The environment between two operations.                                 *)
(***************************************************************************)
\* time passes
Tick ==
    /\ pc = "idle"
    /\ \E t \in Times : t > now /\ now' = t
    /\ last' = NoOp
    /\ UNCHANGED <<fs, config, files, medium, pc, pending, arg, ret>>

\* a file is added, removed, replaced by a symlink, or its target goes away
TouchFs ==
    /\ pc = "idle"
    /\ \E p \in Paths : \E k \in KindsOf(p) \ {fs[p]} : fs' = [fs EXCEPT ![p] = k]
    /\ last' = NoOp
    /\ UNCHANGED <<now, config, files, medium, pc, pending, arg, ret>>

\* the user edits the configuration file; the next process loads it
ChangeConfig ==
    /\ pc = "idle"
    /\ \E c \in Configs \ {config} : config' = c
    /\ last' = NoOp
    /\ UNCHANGED <<fs, now, files, medium, pc, pending, arg, ret>>

CorruptKinds == {"garbage", "binary", "nonobject"}

\* something else overwrites the cache file
Corrupt ==
    /\ pc = "idle"
    /\ LET cache_path == GetCachePath(config, files, medium).path
       IN  /\ medium[cache_path] # "nodir"
           /\ \E c \in {[kind |-> k] : k \in CorruptKinds} \cup {RecordFile(EmptyObject)} :
                 /\ files[cache_path] # c
                 /\ files' = [files EXCEPT ![cache_path] = c]
    /\ last' = NoOp
    /\ UNCHANGED <<fs, now, config, medium, pc, pending, arg, ret>>

AllFs == {f \in [Paths -> {"none", "file", "link", "broken"}] : \A p \in Paths : f[p] \in KindsOf(p)}

\* the record an earlier release left at the old location
LegacyRecord == BuildMovieCache([p \in Paths |-> "file"], 0, "/m", E1, TRUE)

Idle == [done |-> FALSE]

Init ==
    /\ fs \in AllFs
    /\ now = 0
    /\ config \in Configs
    /\ files \in {[l \in Locations |-> IF l = "old" THEN c ELSE Absent] :
                    c \in {Absent, RecordFile(LegacyRecord)}}
    /\ medium = [l \in Locations |-> "ok"]
    /\ pc = "idle"
    /\ pending = NoOp
    /\ last = NoOp
    /\ arg = Idle
    /\ ret = Idle

\* select_movie_file passes the directory and the symlink flag of the
\* configuration; other callers pass extensions of their own
Find ==
    \E extensions \in {E1, E2} :
        FindMovieFiles(config, config.movies_dir, extensions, config.follow_symlinks)

Next ==
    \/ Find
    \/ SaveOpen
    \/ SaveWrite
    \/ Return
    \/ Crash
    \/ InvalidateMovieCache
    \/ Tick
    \/ TouchFs
    \/ ChangeConfig
    \/ Corrupt

Spec == Init /\ [][Next]_vars

(***************************************************************************)
(* The same operations over a storage that can fail.                       *)
(***************************************************************************)
Media == {"ok", "nodir", "noread", "readonly", "full"}

\* the storage behind the default location degrades or recovers
SetMedium ==
    /\ pc = "idle"
    /\ \E m \in Media \ {medium["new"]} :
          /\ m = "nodir" => files["new"].kind = "none"
          /\ medium' = [medium EXCEPT !["new"] = m]
    /\ last' = NoOp
    /\ UNCHANGED <<fs, now, config, files, pc, pending, arg, ret>>

InitIO ==
    /\ fs \in AllFs
    /\ now = 0
    /\ config \in ConfigsOver({"/m"}, {E1, E2}, {TRUE}, 1..MaxTtl, {NoLocation})
    /\ files = [l \in Locations |-> Absent]
    /\ medium = [l \in Locations |-> "ok"]
    /\ pc = "idle"
    /\ pending = NoOp
    /\ last = NoOp
    /\ arg = Idle
    /\ ret = Idle

NextIO ==
    \/ Find
    \/ SaveOpen
    \/ SaveWrite
    \/ Return
    \/ Crash
    \/ InvalidateMovieCache
    \/ Tick
    \/ TouchFs
    \/ Corrupt
    \/ SetMedium

SpecIO == InitIO /\ [][NextIO]_vars

(***************************************************************************)
(* Properties of the cache.                                                *)
(***************************************************************************)
FoundEnabled == last.op = "find" /\ last.cv.cache_enabled

CompleteRecord(value) == value.kind = "record" /\ RequiredKeys \subseteq value.rec.keys

Matches(rec, call) ==
    /\ rec.movies_dir = call.dir
    /\ rec.extensions = call.cv.video_extensions
    /\ rec.follow_symlinks = call.cv.follow_symlinks

Fresh(rec, call) == call.t - rec.timestamp <= call.cv.cache_ttl_hours * SecondsPerHour

\* C2: with caching enabled, entries are served from the persisted record
\* (no scan) only if the record's root directory, extension sequence and
\* follow-symlinks flag equal the current ones and its age is within the
\* TTL; a loaded record that differs in any of the three is rebuilt,
\* however recent it is.
C2_ServedOnlyOnMatch ==
    FoundEnabled =>
        /\ last.kind = "hit" =>
              /\ last.scans = 0
              /\ CompleteRecord(last.loaded)
              /\ Matches(last.loaded.rec, last)
              /\ Fresh(last.loaded.rec, last)
        /\ (CompleteRecord(last.loaded) /\ ~Matches(last.loaded.rec, last)) =>
              /\ last.kind = "miss"
              /\ last.scans = 1

C2_Witness ==
    /\ FoundEnabled
    /\ last.kind = "miss"
    /\ CompleteRecord(last.loaded)
    /\ last.loaded.rec.timestamp = last.t
    /\ last.loaded.rec.movies_dir = last.dir
    /\ last.loaded.rec.extensions = last.cv.video_extensions
    /\ last.loaded.rec.follow_symlinks # last.cv.follow_symlinks

Increasing(s) == \A i, j \in 1..Len(s) : i < j => s[i] < s[j]

ChangedAt(l) == \A k \in Locations \ {l} : files[k] = last.before[k]

\* C3: when caching is enabled and the loaded record is absent or invalid,
\* find_movie_files scans exactly once, builds a record whose entries are
\* exactly the scanned files that could be stat'ed, stamped with the
\* current time and the scan parameters, persists that record and returns
\* its paths unfiltered and in record order.
C3_RebuildOnMiss ==
    /\ (FoundEnabled /\ last.kind # "raise"
          /\ (~Truthy(last.loaded) \/ ~IsCacheValid(last.loaded.rec, last.dir, last.cv, last.t)))
       => last.kind = "miss"
    /\ (last.op = "find" /\ last.kind = "miss") =>
          LET scanned == IterMovieFiles(last.fsBefore, last.dir, last.exts, last.follow)
              rec == last.built
          IN  /\ last.scans = 1
              /\ rec.keys = RequiredKeys
              /\ rec.timestamp = last.t
              /\ rec.movies_dir = last.dir
              /\ rec.extensions = last.exts
              /\ rec.follow_symlinks = last.follow
              /\ Range(PathsOf(rec)) = {p \in Range(scanned) : CanStat(last.fsBefore, p)}
              /\ Increasing(PathsOf(rec))
              /\ \A i \in 1..Len(rec.movies) : rec.movies[i] = Entry(rec.movies[i].path)
              /\ last.saved = "ok"
              /\ \E l \in Locations : files[l] = RecordFile(rec) /\ ChangedAt(l)
              /\ last.result = PathsOf(rec)

C3_Witness ==
    /\ last.op = "find"
    /\ last.kind = "miss"
    /\ last.result # <<>>
    /\ last.exts # last.cv.video_extensions
    /\ \E p \in Range(IterMovieFiles(last.fsBefore, last.dir, last.exts, last.follow)) :
          ~CanStat(last.fsBefore, p)

\* C4: when caching is enabled and the persisted record is valid,
\* find_movie_files returns exactly the record's paths that still exist on
\* disk, scans nothing and leaves the cache file as it was: deleted files
\* are dropped from the result only, files added since are not returned.
PersistedBefore == last.before[GetCachePath(last.singleton, last.before, medium).path]

C4_HitFrame ==
    /\ (FoundEnabled /\ CompleteRecord(PersistedBefore)
          /\ Matches(PersistedBefore.rec, last) /\ Fresh(PersistedBefore.rec, last))
       => (last.kind = "hit" /\ last.loaded = PersistedBefore)
    /\ (last.op = "find" /\ last.kind = "hit") =>
          /\ Range(last.result) = {p \in Range(PathsOf(last.loaded.rec)) : Exists(fs, p)}
          /\ Len(last.result) = Cardinality(Range(last.result))
          /\ last.scans = 0
          /\ files = last.before

C4_Witness ==
    /\ last.op = "find"
    /\ last.kind = "hit"
    /\ last.result # <<>>
    /\ \E p \in Range(PathsOf(last.loaded.rec)) : ~Exists(fs, p)
    /\ \E q \in Range(IterMovieFiles(fs, last.dir, last.exts, last.follow)) :
          Exists(fs, q) /\ q \notin Range(PathsOf(last.loaded.rec))

\* C5: when caching is disabled, find_movie_files scans the tree live and
\* returns the scanner's result; the cache file is neither read nor
\* written nor deleted, whatever it holds.
C5_DisabledIsLive ==
    (last.op = "find" /\ ~last.cv.cache_enabled) =>
        /\ last.kind = "live"
        /\ last.scans = 1
        /\ last.loads = 0
        /\ last.result = IterMovieFiles(fs, last.dir, last.exts, last.follow)
        /\ files = last.before

C5_Witness ==
    /\ last.op = "find"
    /\ ~last.cv.cache_enabled
    /\ \E l \in Locations :
          /\ CompleteRecord(files[l])
          /\ IsCacheValid(files[l].rec, last.dir, last.cv, last.t)
          /\ PathsOf(files[l].rec) # last.result

\* C6: load_movie_cache never raises: a missing or unreadable file and
\* content that is not JSON, cannot be decoded or is no record all yield
\* absent, and the caller rebuilds.
C6_LoadNeverRaises ==
    (FoundEnabled /\ last.loads = 1) =>
        /\ last.kind # "raise"
        /\ ~CompleteRecord(PersistedBefore) => last.kind = "miss"

\* C7 as stated: after a crash during a save the next load returns the
\* previous record intact or the complete new record.
C7_CrashSafe ==
    last.op = "crash" =>
        LoadMovieCache(config, files, medium).value
            \in {LoadMovieCache(config, last.before, medium).value, RecordFile(last.built)}

\* C7: save_movie_cache rewrites the cache file in place.  A crash before
\* the file is opened leaves it as it was; a crash after the open and before
\* the dump is complete leaves a prefix, which the next load reports as
\* absent, so the previous record is lost; a crash after the dump leaves
\* the complete new record.  The next load never raises and never returns
\* a truncated record.
C7_CrashLosesRecord ==
    last.op = "crash" =>
        LET next == LoadMovieCache(config, files, medium)
        IN  /\ ~next.raised
            /\ last.at = "save_open" => files = last.before
            /\ last.at = "save_write" => next.value = None
            /\ last.at = "save_return" => next.value = RecordFile(last.built)
            /\ next.value \in {None, RecordFile(last.built),
                               LoadMovieCache(config, last.before, medium).value}

C7_Witness ==
    /\ last.op = "crash"
    /\ last.at = "save_write"
    /\ \E l \in Locations : CompleteRecord(last.before[l]) /\ files[l].kind = "partial"

\* C8: a failure to persist the cache (directory cannot be created, file
\* cannot be opened or written) is not fatal: find_movie_files does not
\* raise and returns the entries of the record it just built.
C8_PersistFailureNotFatal ==
    (FoundEnabled /\ medium["new"] \in {"nodir", "readonly", "full"} /\ last.kind # "hit") =>
        /\ last.kind = "miss"
        /\ last.saved = "failed"
        /\ last.result = PathsOf(last.built)

\* C9: invalidate_movie_cache deletes the persisted record, so that the
\* next load returns absent and the next cache-enabled resolution rebuilds;
\* with no record it is not an error (exit 0) and changes nothing.
C9_Invalidated ==
    last.op = "invalidate" =>
        /\ last.outcome \in {"cleared", "nofile"}
        /\ last.exit = 0
        /\ last.outcome = "nofile" <=> last.before[last.path].kind = "none"
        /\ files = [last.before EXCEPT ![last.path] = Absent]
        /\ LoadMovieCache(config, files, medium) =
              [raised |-> FALSE, value |-> None, path |-> GetCachePath(config, files, medium).path]

C9_NextRebuilds ==
    (last.op = "invalidate" /\ config.cache_enabled /\ (last'.op = "find" \/ pc' # "idle"))
        => pc' = "save_open"

C9_InvalidateThenRebuild == []C9_Invalidated /\ [][C9_NextRebuilds]_vars

C9_Witness ==
    /\ last.op = "invalidate"
    /\ last.outcome = "cleared"
    /\ last.path = "old"
    /\ config.cache_enabled
    /\ IsCacheValid(last.before[last.path].rec, config.movies_dir, config, now)

(***************************************************************************)
(* is_cache_valid on its own: every record, directory, configuration and   *)
(* time of the bounded sets.                                               *)
(***************************************************************************)
DefaultConfig ==
    [movies_dir |-> "/m", video_extensions |-> E1, follow_symlinks |-> TRUE,
     cache_enabled |-> TRUE, cache_ttl_hours |-> MaxTtl, cache_location |-> NoLocation]

KeySets == {RequiredKeys} \cup {RequiredKeys \ {k} : k \in RequiredKeys} \cup {{}}

CandidateRecords ==
    [keys : KeySets, timestamp : Times, movies_dir : Roots, extensions : {E1, E2, E3},
     follow_symlinks : BOOLEAN, movies : {<<>>}]

Quiet ==
    /\ fs = [p \in Paths |-> "file"]
    /\ now = 0
    /\ config = DefaultConfig
    /\ files = [l \in Locations |-> Absent]
    /\ medium = [l \in Locations |-> "ok"]
    /\ pc = "idle"
    /\ pending = NoOp
    /\ last = NoOp

InitValid ==
    /\ Quiet
    /\ arg \in [fn : {"is_cache_valid"},
                rec : CandidateRecords,
                dir : Roots,
                cv : ConfigsOver({"/m"}, {E1, E2, E3}, {TRUE}, 0..MaxTtl, {NoLocation}),
                t : Times]
    /\ ret = Idle

CheckCacheValid ==
    /\ arg.fn = "is_cache_valid"
    /\ ~ret.done
    /\ ret' = [done |-> TRUE, val |-> IsCacheValid(arg.rec, arg.dir, arg.cv, arg.t)]
    /\ UNCHANGED <<cacheVars, arg>>

NextValid == CheckCacheValid

SpecValid == InitValid /\ [][NextValid]_vars

\* C1: is_cache_valid is true iff the record has every required key, its
\* movies_dir is the given directory, its extensions are the configured
\* sequence (order included), its follow_symlinks is the configured flag
\* and now - timestamp <= cache_ttl_hours * 3600.
C1_ValidIff ==
    (ret.done /\ arg.fn = "is_cache_valid") =>
        (ret.val <=>
            /\ RequiredKeys \subseteq arg.rec.keys
            /\ arg.rec.movies_dir = arg.dir
            /\ Len(arg.rec.extensions) = Len(arg.cv.video_extensions)
            /\ \A i \in 1..Len(arg.rec.extensions) :
                  arg.rec.extensions[i] = arg.cv.video_extensions[i]
            /\ arg.rec.follow_symlinks = arg.cv.follow_symlinks
            /\ arg.t - arg.rec.timestamp <= arg.cv.cache_ttl_hours * SecondsPerHour)

C1_Witness ==
    /\ ret.done
    /\ arg.fn = "is_cache_valid"
    /\ ret.val
    /\ arg.cv.cache_ttl_hours >= 1
    /\ arg.t - arg.rec.timestamp = arg.cv.cache_ttl_hours * SecondsPerHour

(***************************************************************************)
(* fuzzy_match_movie.  A candidate is a path given by its stem, the name   *)
(* of its parent directory and the name of its grandparent directory;      *)
(* ratio[n] is what fuzz.partial_ratio(query.lower(), n) returns for the   *)
(* lowercased name n.                                                      *)
(***************************************************************************)
MaxFiles == 3

Scores == {0, ScoreThreshold, ScoreThreshold + 1, 90, 91}

LowerName(n) ==
    CASE n = "Iron" -> "iron" [] n = "Thor" -> "thor" [] n = "Marvel" -> "marvel"
      [] n = "A" -> "a" [] n = "B" -> "b" [] n = "C" -> "c" [] n = "L" -> "l"
      [] OTHER -> n

Candidates ==
    {[stem |-> "Iron", parent |-> "Marvel", grand |-> "movies"],
     [stem |-> "Thor", parent |-> "Marvel", grand |-> "movies"],
     [stem |-> "Iron", parent |-> "dup", grand |-> "dup"],
     [stem |-> "Thor", parent |-> "dup", grand |-> "dup"]}

ScoredNames == {"iron", "thor", "marvel", "dup"}

Max(a, b) == IF a >= b THEN a ELSE b

\* score > 60, strictly
PassesThreshold_Inclusive(score) == score >= ScoreThreshold

\* score > 60
PassesThreshold(score) == score > ScoreThreshold

\* the score of one candidate
ScoreOf(ratio, movie_file) ==
    LET score == ratio[LowerName(movie_file.stem)]
    IN  IF movie_file.parent # movie_file.grand
        THEN Max(score, ratio[LowerName(movie_file.parent)])
        ELSE score

\* list.sort(key=score, reverse=True): stable, equal scores keep their order
RECURSIVE InsertByScore(_, _)
InsertByScore(x, s) ==
    IF s = <<>> THEN <<x>>
    ELSE IF x.score > Head(s).score THEN <<x>> \o s
    ELSE <<Head(s)>> \o InsertByScore(x, Tail(s))

RECURSIVE SortByScore(_)
SortByScore(s) ==
    IF s = <<>> THEN <<>>
    ELSE InsertByScore(s[Len(s)], SortByScore(SubSeq(s, 1, Len(s) - 1)))

\* fuzzy_match_movie
FuzzyMatchMovie(ratio, movie_files) ==
    LET scored == [i \in 1..Len(movie_files) |->
                      [file |-> movie_files[i], score |-> ScoreOf(ratio, movie_files[i])]]
        Kept(m) == PassesThreshold(m.score)
        matches == SelectSeq(scored, Kept)
    IN  SortByScore(matches)

FileLists ==
    {s \in UNION {[1..n -> Candidates] : n \in 0..MaxFiles} :
        \A i, j \in 1..Len(s) : i # j => s[i] # s[j]}

InitFuzzy ==
    /\ Quiet
    /\ arg \in [fn : {"fuzzy_match_movie"},
                ratio : [ScoredNames -> Scores],
                movie_files : FileLists]
    /\ ret = Idle

MatchMovies ==
    /\ arg.fn = "fuzzy_match_movie"
    /\ ~ret.done
    /\ ret' = [done |-> TRUE, val |-> FuzzyMatchMovie(arg.ratio, arg.movie_files)]
    /\ UNCHANGED <<cacheVars, arg>>

NextFuzzy == MatchMovies

SpecFuzzy == InitFuzzy /\ [][NextFuzzy]_vars

Expected(f) ==
    IF f.parent = f.grand THEN arg.ratio[LowerName(f.stem)]
    ELSE IF arg.ratio[LowerName(f.stem)] >= arg.ratio[LowerName(f.parent)]
    THEN arg.ratio[LowerName(f.stem)]
    ELSE arg.ratio[LowerName(f.parent)]

PositionOf(f) == CHOOSE i \in 1..Len(arg.movie_files) : arg.movie_files[i] = f

\* C10: each candidate scores max(filename score, parent-directory score),
\* the parent score counting only when the parent's name differs from the
\* grandparent's; a candidate is returned iff its score is strictly above
\* 60; the result is in descending score order and candidates of equal
\* score keep their input order.
C10_FuzzyMatch ==
    (ret.done /\ arg.fn = "fuzzy_match_movie") =>
        LET out == ret.val
        IN  /\ \A i \in 1..Len(out) : out[i].score = Expected(out[i].file)
            /\ {out[i].file : i \in 1..Len(out)}
                  = {f \in Range(arg.movie_files) : Expected(f) > 60}
            /\ \A i, j \in 1..Len(out) : i < j =>
                  /\ out[i].file # out[j].file
                  /\ out[i].score >= out[j].score
                  /\ out[i].score = out[j].score
                        => PositionOf(out[i].file) < PositionOf(out[j].file)

C10_Witness ==
    /\ ret.done
    /\ arg.fn = "fuzzy_match_movie"
    /\ Len(ret.val) = 2
    /\ ret.val[1].score = ret.val[2].score
    /\ ret.val[1].file.parent # ret.val[1].file.grand
    /\ arg.ratio[LowerName(ret.val[1].file.stem)] < ret.val[1].score
    /\ ret.val[2].file.parent = ret.val[2].file.grand
    /\ \E f \in Range(arg.movie_files) : Expected(f) = 60

(***************************************************************************)
(* select_movie_file.  The query is a text; home is the part of the file   *)
(* system it can name as a path ("file", "dir" or "none" for each path).   *)
(* A candidate is a record as for fuzzy_match_movie.  An answer to the     *)
(* prompt is a text that int() rejects, or a number.                       *)
(***************************************************************************)
MaxMatches == 11   \* the library holds up to MaxMatches movie files
MaxRetries == 2    \* rejected answers followed in one prompt loop

AutoSelectScore == 90
PresentLimit == 10
HintLimit == 10
ExactScore == 100

Running == 0 - 1

NoPath == "None"

Min(a, b) == IF a <= b THEN a ELSE b

FirstN(s, n) == SubSeq(s, 1, Min(Len(s), n))

\* Path.expanduser with the tilde left in place
ExpandUser_Identity(text) == text

\* Path(query).expanduser()
ExpandUser(text) == IF text = "~/clip.mkv" THEN "/home/u/clip.mkv" ELSE text

HomePaths == {"/home/u/clip.mkv"}

KindAt(home, path) == IF path \in DOMAIN home THEN home[path] ELSE "none"

\* query_path.exists() and query_path.is_file()
IsExistingFile(home, query) == KindAt(home, ExpandUser(query)) = "file"

QueryFile(query) ==
    [stem |-> "clip", parent |-> "u", grand |-> "home", at |-> ExpandUser(query)]

\* every movie listed, not the first ten
HintTitles_All(movie_files) == [i \in 1..Len(movie_files) |-> movie_files[i].stem]

\* the titles printed under "Available movies:"
HintTitles(movie_files) ==
    LET listed == FirstN(movie_files, HintLimit)
    IN  [i \in 1..Len(listed) |-> listed[i].stem]

\* len(matches) == 1 or matches[0][1] > 90
AutoSelects(matches) == Len(matches) = 1 \/ matches[1].score > AutoSelectScore

\* the rows of the table: matches[:10]
Presented(matches) == FirstN(matches, PresentLimit)

NonNumeric == [numeric |-> FALSE, n |-> 0]

Number(n) == [numeric |-> TRUE, n |-> n]

Answers == {NonNumeric} \cup {Number(n) : n \in (0 - 1)..(MaxMatches + 1)}

\* 0 <= index < len(matches), index = int(selection) - 1
Accepts(matches, selection) ==
    selection.numeric /\ 0 <= selection.n - 1 /\ selection.n - 1 < Len(matches)

\* the invocation as it enters select_movie_file
Resolving ==
    [done |-> FALSE, phase |-> "Resolving", step |-> "start", before |-> files,
     movie_files |-> <<>>, matches |-> <<>>, shown |-> <<>>, hint |-> <<>>,
     prompts |-> 0, rejected |-> 0, answer |-> NonNumeric,
     selected |-> None, how |-> "none", exit |-> Running, raised |-> FALSE,
     env |-> None, ffprobe |-> NoPath, versions |-> 0,
     start |-> <<>>, duration |-> <<>>, start_seconds |-> 0, duration_seconds |-> 0,
     command |-> <<>>, asked |-> FALSE, proceed |-> FALSE, runs |-> 0, outcome |-> "none"]

\* select_movie_file returns movie_file
Selected(r, movie_file, how) ==
    [r EXCEPT !.step = "returned", !.selected = movie_file, !.how = how]

\* sys.exit(code)
Exited(r, code) == [r EXCEPT !.done = TRUE, !.phase = "Failed", !.exit = code]

\* an exception nobody catches ends the process with a traceback and status 1
Uncaught(r) == [Exited(r, 1) EXCEPT !.raised = TRUE]

\* select_movie_file from the result of find_movie_files on
Resolve(r, movie_files, ratio) ==
    LET matches == FuzzyMatchMovie(ratio, movie_files)
        found == [r EXCEPT !.movie_files = movie_files, !.matches = matches]
    IN  IF movie_files = <<>> THEN Exited(found, 1)
        ELSE IF matches = <<>>
        THEN [Exited(found, 1) EXCEPT !.hint = HintTitles(movie_files)]
        ELSE IF AutoSelects(matches) THEN Selected(found, matches[1].file, "auto")
        ELSE [found EXCEPT !.step = "prompting", !.shown = Presented(matches), !.prompts = 1]

\* select_movie_file: the query that names an existing file is returned
SelectMovieFile ==
    /\ ret.phase = "Resolving"
    /\ ret.step = "start"
    /\ ret' = IF IsExistingFile(arg.home, arg.query)
              THEN Selected(ret, QueryFile(arg.query), "direct")
              ELSE [ret EXCEPT !.step = "finding"]
    /\ UNCHANGED <<cacheVars, arg>>

\* select_movie_file: the matching of the files find_movie_files returned
SelectAmong(movie_files) ==
    /\ ret.phase = "Resolving"
    /\ ret.step = "finding"
    /\ ret' = Resolve(ret, movie_files, arg.ratio)
    /\ UNCHANGED <<cacheVars, arg>>

\* select_movie_file: one turn of the prompt loop
Answer ==
    /\ ret.phase = "Resolving"
    /\ ret.step = "prompting"
    /\ \E selection \in Answers :
          IF Accepts(ret.matches, selection)
          THEN ret' = [Selected(ret, ret.matches[selection.n].file, "chosen")
                         EXCEPT !.answer = selection]
          ELSE /\ ret.rejected < MaxRetries
               /\ ret' = [ret EXCEPT !.rejected = @ + 1, !.prompts = @ + 1,
                                     !.answer = selection]
    /\ UNCHANGED <<cacheVars, arg>>

(***************************************************************************)
(* select_movie_file over a library that find_movie_files returns as it    *)
(* is: the first n titles of Library, all in the directory /movies.        *)
(* ratio[name] is fuzz.partial_ratio(query.lower(), name); the metric      *)
(* gives a name equal to the query ExactScore, and may give it to other    *)
(* names as well (a title that contains the query).                        *)
(***************************************************************************)
Titles ==
    <<"t01", "t02", "t03", "t04", "t05", "t06", "t07", "t08", "t09", "t10", "t11",
      "t12", "t13">>

Library == [i \in 1..Len(Titles) |-> [stem |-> Titles[i], parent |-> "movies", grand |-> ""]]

TitleNames == Range(Titles) \cup {"movies"}

IndexOf(name) == CHOOSE i \in 1..Len(Titles) : Titles[i] = name

\* the first k titles score low, the title at pos scores top, the rest 0
RatioOf(k, pos, top, low) ==
    [name \in TitleNames |->
        IF name = "movies" THEN 0
        ELSE IF IndexOf(name) = pos THEN top
        ELSE IF IndexOf(name) <= k THEN low
        ELSE 0]

RatiosFor(query, n) ==
    {r \in {RatioOf(k, pos, top, low) :
                k \in {0, 2, n}, pos \in {1, 2},
                top \in {0, ScoreThreshold + 1, AutoSelectScore, AutoSelectScore + 1, ExactScore},
                low \in {0, ScoreThreshold, ScoreThreshold + 1, ExactScore}} :
        LowerName(query) \in TitleNames => r[LowerName(query)] = ExactScore}

InitSelect ==
    /\ Quiet
    /\ \E n \in 0..MaxMatches : \E query \in {"~/clip.mkv", "t02", "zzzz"} :
          arg \in [fn : {"select_movie_file"},
                   query : {query},
                   home : IF query = "~/clip.mkv"
                          THEN [HomePaths -> {"file", "dir", "none"}]
                          ELSE {[p \in HomePaths |-> "none"]},
                   movie_files : {FirstN(Library, n)},
                   ratio : RatiosFor(query, n)]
    /\ ret = Resolving

\* find_movie_files returned the library
SelectGiven == SelectAmong(arg.movie_files)

NextSelect ==
    \/ SelectMovieFile
    \/ SelectGiven
    \/ Answer

SpecSelect == InitSelect /\ [][NextSelect]_vars

(***************************************************************************)
(* Properties of the selection.                                            *)
(***************************************************************************)
\* the matching has run
Matched == ret.how # "direct" /\ (ret.done \/ ret.step \in {"returned", "prompting"})

TopScore == ret.matches[1].score

C11_AutoSelectRule ==
    (Matched /\ ret.matches # <<>>) =>
        /\ (ret.how = "auto" /\ ret.prompts = 0)
              <=> (Len(ret.matches) = 1 \/ TopScore > 90)
        /\ ret.how = "auto" => ret.selected = ret.matches[1].file
        /\ (Len(ret.matches) >= 2 /\ TopScore <= 90) => ret.prompts >= 1

C11_ExactName ==
    (Matched /\ \E i \in 1..Len(arg.movie_files) : arg.movie_files[i].stem = arg.query) =>
        /\ \E j \in 1..Len(ret.matches) :
              ret.matches[j].file.stem = arg.query /\ ret.matches[j].score >= 90
        /\ ret.how = "auto"
        /\ ret.prompts = 0
        /\ ret.selected.stem = arg.query

\* C11: select_movie_file returns the top-ranked match without prompting
\* iff there is exactly one match or the top score is strictly above 90,
\* and prompts otherwise; a query equal to a file's base name scores at
\* least 90 and that file is selected without a prompt.
C11_AutoSelect == C11_AutoSelectRule /\ C11_ExactName

\* C12: the prompt presents the first N = min(len(matches), 10) matches;
\* an answer is accepted iff it is a number in 1..N, and the file returned
\* is the presented candidate of that number.
C12_PromptWithinPresented ==
    ret.prompts >= 1 =>
        LET N == Min(Len(ret.matches), 10)
            InRange == ret.answer.numeric /\ ret.answer.n \in 1..N
        IN  /\ ret.shown = SubSeq(ret.matches, 1, N)
            /\ ret.how = "chosen" =>
                  /\ InRange
                  /\ ret.selected \in {ret.shown[i].file : i \in 1..N}
                  /\ ret.selected = ret.shown[ret.answer.n].file
            /\ (ret.step = "prompting" /\ ret.rejected >= 1) => ~InRange

\* C14: when the query names no existing file and the library is empty or
\* no candidate scores above the threshold, select_movie_file exits with a
\* non-zero status without returning a file or prompting; with candidates
\* and no match it lists the first min(len, 10) titles, with no candidate
\* it lists none.  It exits for no other reason.
C14_NoMatchExits ==
    Matched =>
        LET NoCandidate == arg.movie_files = <<>>
            NoMatch == \A i \in 1..Len(arg.movie_files) :
                          Expected(arg.movie_files[i]) <= 60
        IN  /\ ret.done <=> (NoCandidate \/ NoMatch)
            /\ ret.done =>
                  /\ ret.exit = 1
                  /\ ret.selected = None
                  /\ ret.prompts = 0
                  /\ Len(ret.hint) <= 10
                  /\ ret.hint = [i \in 1..Min(Len(arg.movie_files), 10)
                                    |-> arg.movie_files[i].stem]

C14_Witness ==
    /\ Matched
    /\ ret.done
    /\ Len(arg.movie_files) > 10
    /\ Len(ret.hint) = 10
    /\ \E i \in 1..Len(arg.movie_files) : Expected(arg.movie_files[i]) = 60

(***************************************************************************)
(* Texts.  A text is a sequence of one-character strings; an argument of   *)
(* the ffmpeg command is a sequence of strings, so that a time it holds is *)
(* the text format_time returns.                                           *)
(***************************************************************************)
MaxStreams == 2    \* ffprobe reports up to MaxStreams audio streams

SecondsPerMinute == 60

DigitChars == <<"0", "1", "2", "3", "4", "5", "6", "7", "8", "9">>

Digit(n) == DigitChars[n + 1]

IsDigit(c) == \E n \in 0..9 : c = Digit(n)

DigitValue(c) == CHOOSE n \in 0..9 : c = Digit(n)

\* str(n), n >= 0
RECURSIVE Digits(_)
Digits(n) == IF n < 10 THEN <<Digit(n)>> ELSE Digits(n \div 10) \o <<Digit(n % 10)>>

\* str(n)
Str(n) == IF n < 0 THEN <<"-">> \o Digits(0 - n) ELSE Digits(n)

\* f"{n:02d}"
Pad2(n) == IF n >= 0 /\ n < 10 THEN <<"0">> \o Digits(n) ELSE Str(n)

\* format_time; // and % round towards minus infinity, as \div and % do
FormatTime(seconds) ==
    LET hours == seconds \div SecondsPerHour
        minutes == (seconds % SecondsPerHour) \div SecondsPerMinute
        secs == seconds % SecondsPerMinute
    IN  Pad2(hours) \o <<":">> \o Pad2(minutes) \o <<":">> \o Pad2(secs)

(***************************************************************************)
(* Audio streams.  A language tag is a text.  What ffprobe does with the   *)
(* file is a probe: it cannot be started, exits non-zero, prints text that *)
(* is not JSON, prints JSON of another shape (no object), or prints the    *)
(* object whose "streams" are the raw streams, each with or without a      *)
(* language tag.                                                           *)
(***************************************************************************)
Eng == <<"e", "n", "g">>
En == <<"e", "n">>
Enm == <<"e", "n", "m">>
Fre == <<"f", "r", "e">>
Unknown == <<"u", "n", "k", "n", "o", "w", "n">>

Tags == {<<>>, <<"e">>, En, Eng, Enm, Fre}

PreferredTags == {t \in Tags : Len(t) >= 2}

Take(text, n) == SubSeq(text, 1, IF Len(text) <= n THEN Len(text) ELSE n)

\* text.startswith(prefix)
StartsWith(text, prefix) ==
    Len(text) >= Len(prefix) /\ SubSeq(text, 1, Len(prefix)) = prefix

\* the first stream of the list among those at the positions in hits
First(audio_streams, hits) ==
    audio_streams[CHOOSE i \in hits : \A j \in hits : i <= j]

\* select_audio_stream without the pass for the exact tag
SelectAudioStream_PrefixOnly(audio_streams, preferred_language) ==
    LET Prefix == {i \in 1..Len(audio_streams) :
                      StartsWith(audio_streams[i].language, Take(preferred_language, 2))}
    IN  IF audio_streams = <<>> THEN None
        ELSE IF Prefix # {} THEN First(audio_streams, Prefix)
        ELSE audio_streams[1]

\* select_audio_stream
SelectAudioStream(audio_streams, preferred_language) ==
    LET Exact == {i \in 1..Len(audio_streams) :
                     audio_streams[i].language = preferred_language}
        Prefix == {i \in 1..Len(audio_streams) :
                      StartsWith(audio_streams[i].language, Take(preferred_language, 2))}
    IN  IF audio_streams = <<>> THEN None
        ELSE IF Exact # {} THEN First(audio_streams, Exact)
        ELSE IF Prefix # {} THEN First(audio_streams, Prefix)
        ELSE audio_streams[1]

Descriptor(index, language) == [index |-> index, language |-> language]

\* the descriptor that stands for "first audio stream, language unknown"
Synthetic == <<Descriptor(0, Unknown)>>

ProbeKinds == {"cannot_start", "nonzero", "notjson", "wrongshape", "ok"}

RawStreams == [tagged : {TRUE}, language : {Eng, Fre}] \cup {[tagged |-> FALSE, language |-> <<>>]}

Probes ==
    {[kind |-> k, streams |-> <<>>] : k \in ProbeKinds \ {"ok"}}
        \cup {[kind |-> "ok", streams |-> s] :
                s \in UNION {[1..n -> RawStreams] : n \in 0..MaxStreams}}

\* detect_audio_streams: subprocess.run raises OSError when the tool cannot
\* be started and data.get raises AttributeError when the JSON is no
\* object; the except clause names neither
DetectAudioStreams(ffprobe_path, probe) ==
    IF ffprobe_path = NoPath THEN [raised |-> FALSE, value |-> Synthetic, ran |-> FALSE]
    ELSE IF probe.kind \in {"cannot_start", "wrongshape"}
    THEN [raised |-> TRUE, value |-> <<>>, ran |-> TRUE]
    ELSE IF probe.kind \in {"nonzero", "notjson"}
    THEN [raised |-> FALSE, value |-> Synthetic, ran |-> TRUE]
    ELSE [raised |-> FALSE,
          value |-> [i \in 1..Len(probe.streams) |->
                        Descriptor(i - 1, IF probe.streams[i].tagged
                                          THEN probe.streams[i].language
                                          ELSE Unknown)],
          ran |-> TRUE]

(***************************************************************************)
(* build_ffmpeg_command.                                                   *)
(***************************************************************************)
AudioSettings ==
    [default_audio_codec |-> "pcm_s16le", default_sample_rate |-> 48000,
     default_audio_channels |-> 2, default_audio_language |-> Eng,
     preserve_all_audio |-> FALSE]

NoLang == [given |-> FALSE, tag |-> <<>>]

Lang(tag) == [given |-> TRUE, tag |-> tag]

\* audio_lang or config_value.settings.default_audio_language
TargetLanguage(audio_lang, settings) ==
    IF audio_lang.given /\ audio_lang.tag # <<>> THEN audio_lang.tag
    ELSE settings.default_audio_language

\* the first ten arguments
CommandHead(movie_file, start_seconds, duration_seconds, ffmpeg_path) ==
    <<<<ffmpeg_path>>, <<"-y">>, <<"-ss">>, FormatTime(start_seconds), <<"-i">>,
      <<movie_file>>, <<"-t">>, FormatTime(duration_seconds), <<"-c:v">>, <<"copy">>>>

\* -ac, when stereo, then -c:a and -ar
AudioTail(stereo, settings) ==
    (IF stereo THEN <<<<"-ac">>, Str(settings.default_audio_channels)>> ELSE <<>>)
        \o <<<<"-c:a">>, <<settings.default_audio_codec>>,
             <<"-ar">>, Str(settings.default_sample_rate)>>

\* the -map arguments of the selective mode that maps a stream whatever
\* the probe found
SelectiveMaps_Always(audio_streams, target_language) ==
    LET selected_stream == SelectAudioStream(audio_streams, target_language)
    IN  IF audio_streams # <<>>
        THEN <<<<"-map">>, <<"0:v:0">>, <<"-map">>, <<"0:a:">> \o Str(selected_stream.index)>>
        ELSE <<<<"-map">>, <<"0:v:0">>, <<"-map">>, <<"0:a:">> \o Str(0)>>

\* the -map arguments of the selective mode
SelectiveMaps(audio_streams, target_language) ==
    LET selected_stream == SelectAudioStream(audio_streams, target_language)
    IN  IF audio_streams # <<>>
        THEN <<<<"-map">>, <<"0:v:0">>, <<"-map">>, <<"0:a:">> \o Str(selected_stream.index)>>
        ELSE <<>>

\* build_ffmpeg_command; probe is what ffprobe does if it is run
BuildFfmpegCommand(movie_file, start_seconds, duration_seconds, output_file, ffmpeg_path, ffprobe_path, preserve_audio, audio_lang, stereo, settings, probe) ==
    LET head == CommandHead(movie_file, start_seconds, duration_seconds, ffmpeg_path)
        detected == DetectAudioStreams(ffprobe_path, probe)
    IN  IF preserve_audio
        THEN [raised |-> FALSE, called |-> FALSE, ran |-> FALSE, streams |-> <<>>,
              command |-> head \o <<<<"-map">>, <<"0:v:0">>, <<"-map">>, <<"0:a?">>>>
                              \o AudioTail(stereo, settings) \o <<<<output_file>>>>]
        ELSE IF detected.raised
        THEN [raised |-> TRUE, called |-> TRUE, ran |-> detected.ran, streams |-> <<>>,
              command |-> <<>>]
        ELSE [raised |-> FALSE, called |-> TRUE, ran |-> detected.ran,
              streams |-> detected.value,
              command |-> head
                              \o SelectiveMaps(detected.value,
                                               TargetLanguage(audio_lang, settings))
                              \o AudioTail(stereo, settings) \o <<<<output_file>>>>]

(***************************************************************************)
(* select_audio_stream, detect_audio_streams and build_ffmpeg_command on   *)
(* their own, over the bounded inputs.                                     *)
(***************************************************************************)
InitBuild ==
    /\ Quiet
    /\ \/ arg \in [fn : {"select_audio_stream"},
                   audio_streams :
                       {[i \in 1..Len(tags) |-> Descriptor(i - 1, tags[i])] :
                           tags \in UNION {[1..n -> Tags] : n \in 0..(MaxStreams + 1)}},
                   preferred_language : PreferredTags]
       \/ arg \in [fn : {"detect_audio_streams"},
                   ffprobe_path : {NoPath, "/usr/bin/ffprobe"},
                   probe : Probes]
       \/ arg \in [fn : {"build_ffmpeg_command"},
                   start_seconds : {0 - 30, 0, 59, 3723, 360000},
                   duration_seconds : {20, 3723},
                   ffprobe_path : {NoPath, "/usr/bin/ffprobe"},
                   probe : Probes,
                   preserve_audio : BOOLEAN,
                   audio_lang : {NoLang, Lang(<<>>), Lang(En), Lang(Fre)},
                   stereo : BOOLEAN]
    /\ ret = Idle

ChooseAudioStream ==
    /\ arg.fn = "select_audio_stream"
    /\ ~ret.done
    /\ ret' = [done |-> TRUE,
               val |-> SelectAudioStream(arg.audio_streams, arg.preferred_language)]
    /\ UNCHANGED <<cacheVars, arg>>

ProbeAudioStreams ==
    /\ arg.fn = "detect_audio_streams"
    /\ ~ret.done
    /\ ret' = [done |-> TRUE, val |-> DetectAudioStreams(arg.ffprobe_path, arg.probe)]
    /\ UNCHANGED <<cacheVars, arg>>

BuildCommand ==
    /\ arg.fn = "build_ffmpeg_command"
    /\ ~ret.done
    /\ ret' = [done |-> TRUE,
               val |-> BuildFfmpegCommand("/m/A.mkv", arg.start_seconds, arg.duration_seconds,
                                          "/clips/out.mp4", "/usr/bin/ffmpeg",
                                          arg.ffprobe_path, arg.preserve_audio,
                                          arg.audio_lang, arg.stereo, AudioSettings,
                                          arg.probe)]
    /\ UNCHANGED <<cacheVars, arg>>

NextBuild ==
    \/ ChooseAudioStream
    \/ ProbeAudioStreams
    \/ BuildCommand

SpecBuild == InitBuild /\ [][NextBuild]_vars

C16_ProbeNeverRaises ==
    /\ (ret.done /\ arg.fn = "detect_audio_streams") =>
          /\ ~ret.val.raised
          /\ arg.ffprobe_path = NoPath => (ret.val.value = Synthetic /\ ~ret.val.ran)
          /\ (arg.ffprobe_path # NoPath /\ arg.probe.kind # "ok") => ret.val.value = Synthetic
    /\ (ret.done /\ arg.fn = "build_ffmpeg_command") => ~ret.val.raised

RECURSIVE TextValue(_)
TextValue(text) ==
    IF text = <<>> THEN 0
    ELSE TextValue(SubSeq(text, 1, Len(text) - 1)) * 10 + DigitValue(text[Len(text)])

\* text is HH:MM:SS (two digits or more, two digits below 60, two digits
\* below 60) and stands for seconds
Canonical(text, seconds) ==
    LET n == Len(text)
    IN  /\ n >= 8
        /\ text[n - 2] = ":"
        /\ text[n - 5] = ":"
        /\ \A i \in (1..n) \ {n - 2, n - 5} : IsDigit(text[i])
        /\ TextValue(SubSeq(text, n - 4, n - 3)) < 60
        /\ TextValue(SubSeq(text, n - 1, n)) < 60
        /\ TextValue(SubSeq(text, 1, n - 6)) * 3600
              + TextValue(SubSeq(text, n - 4, n - 3)) * 60
              + TextValue(SubSeq(text, n - 1, n)) = seconds

Positions(command, argument) == {i \in 1..Len(command) : command[i] = argument}

\* the arguments that follow -map, in order
MapTargets(command) ==
    LET at == SortedSeqOf({i \in Positions(command, <<"-map">>) : i < Len(command)})
    IN  [k \in 1..Len(at) |-> command[at[k] + 1]]

\* C17: the command starts with the tool path, -y, -ss and the start time
\* in canonical HH:MM:SS, -i and the input file, -t and the duration in
\* canonical HH:MM:SS, -c:v copy; it ends with the output path; copy is the
\* only video codec; -c:a <codec> -ar <rate> come after the -map arguments
\* and after -ac <channels>, which is there iff stereo is requested.
C17_CommandShape ==
    (ret.done /\ arg.fn = "build_ffmpeg_command" /\ ~ret.val.raised) =>
        LET c == ret.val.command
            n == Len(c)
        IN  /\ n >= 15
            /\ SubSeq(c, 1, 3) = <<<<"/usr/bin/ffmpeg">>, <<"-y">>, <<"-ss">>>>
            /\ Canonical(c[4], arg.start_seconds)
            /\ SubSeq(c, 5, 7) = <<<<"-i">>, <<"/m/A.mkv">>, <<"-t">>>>
            /\ Canonical(c[8], arg.duration_seconds)
            /\ SubSeq(c, 9, 10) = <<<<"-c:v">>, <<"copy">>>>
            /\ Positions(c, <<"-c:v">>) = {9}
            /\ c[n] = <<"/clips/out.mp4">>
            /\ SubSeq(c, n - 4, n - 1) = <<<<"-c:a">>, <<"pcm_s16le">>, <<"-ar">>, Str(48000)>>
            /\ Positions(c, <<"-c:a">>) = {n - 4}
            /\ Positions(c, <<"-ar">>) = {n - 2}
            /\ Positions(c, <<"-ac">>) = IF arg.stereo THEN {n - 6} ELSE {}
            /\ arg.stereo => c[n - 5] = Str(2)
            /\ \A i \in Positions(c, <<"-map">>) :
                  10 < i /\ i + 1 < (IF arg.stereo THEN n - 6 ELSE n - 4)

SelectiveTarget ==
    IF arg.audio_lang.given /\ arg.audio_lang.tag # <<>> THEN arg.audio_lang.tag ELSE Eng

C18_PreserveMaps ==
    (ret.done /\ arg.fn = "build_ffmpeg_command" /\ arg.preserve_audio) =>
        /\ ~ret.val.raised
        /\ MapTargets(ret.val.command) = <<<<"0:v:0">>, <<"0:a?">>>>
        /\ Cardinality(Positions(ret.val.command, <<"-map">>)) = 2
        /\ ~ret.val.called
        /\ ~ret.val.ran

\* C18 as stated: in selective mode every probe result gives a command
\* that maps 0:v:0 and the one audio stream select_audio_stream chooses.
C18_MapsOnePair ==
    /\ C18_PreserveMaps
    /\ (ret.done /\ arg.fn = "build_ffmpeg_command" /\ ~arg.preserve_audio /\ ~ret.val.raised) =>
          /\ Cardinality(Positions(ret.val.command, <<"-map">>)) = 2
          /\ Len(MapTargets(ret.val.command)) = 2
          /\ MapTargets(ret.val.command)[1] = <<"0:v:0">>
          /\ \E i \in 1..Len(ret.val.streams) :
                /\ ret.val.streams[i] = SelectAudioStream(ret.val.streams, SelectiveTarget)
                /\ MapTargets(ret.val.command)[2] = <<"0:a:">> \o Str(ret.val.streams[i].index)

\* C18: in preserve-audio mode the command maps 0:v:0 and 0:a? and nothing
\* is probed.  In selective mode, when the probe yields at least one stream
\* (the synthetic one included), the command maps exactly 0:v:0 and
\* 0:a:<index of the stream select_audio_stream chooses for audio_lang, or
\* for the default language when audio_lang is not given or empty>; when
\* the probe yields no audio stream the command has no -map argument.
C18_MapsPairIfAnyStream ==
    /\ C18_PreserveMaps
    /\ (ret.done /\ arg.fn = "build_ffmpeg_command" /\ ~arg.preserve_audio /\ ~ret.val.raised) =>
          /\ ret.val.called
          /\ arg.ffprobe_path = NoPath => ret.val.streams = Synthetic
          /\ IF ret.val.streams = <<>>
             THEN Positions(ret.val.command, <<"-map">>) = {}
             ELSE /\ Cardinality(Positions(ret.val.command, <<"-map">>)) = 2
                  /\ MapTargets(ret.val.command)[1] = <<"0:v:0">>
                  /\ \E i \in 1..Len(ret.val.streams) :
                        /\ ret.val.streams[i]
                              = SelectAudioStream(ret.val.streams, SelectiveTarget)
                        /\ MapTargets(ret.val.command)[2]
                              = <<"0:a:">> \o Str(ret.val.streams[i].index)

C18_Witness ==
    /\ ret.done
    /\ arg.fn = "build_ffmpeg_command"
    /\ ~arg.preserve_audio
    /\ ~ret.val.raised
    /\ Len(ret.val.streams) = 2
    /\ arg.audio_lang = Lang(<<>>)
    /\ MapTargets(ret.val.command) = <<<<"0:v:0">>, <<"0:a:", "1">>>>

(***************************************************************************)
(* parse_time.  int() takes decimal digits with an optional sign;          *)
(* str.isdigit() takes decimal digits only.                                *)
(***************************************************************************)
IsDigitText(text) == text # <<>> /\ \A i \in 1..Len(text) : IsDigit(text[i])

\* int(text)
IntOf(text) ==
    IF IsDigitText(text) THEN [raised |-> FALSE, value |-> TextValue(text)]
    ELSE IF text # <<>> /\ text[1] = "-" /\ IsDigitText(Tail(text))
    THEN [raised |-> FALSE, value |-> 0 - TextValue(Tail(text))]
    ELSE IF text # <<>> /\ text[1] = "+" /\ IsDigitText(Tail(text))
    THEN [raised |-> FALSE, value |-> TextValue(Tail(text))]
    ELSE [raised |-> TRUE, value |-> 0]

\* text.split(":")
RECURSIVE Split(_)
Split(text) ==
    IF \A i \in 1..Len(text) : text[i] # ":" THEN <<text>>
    ELSE LET at == CHOOSE i \in 1..Len(text) :
                       text[i] = ":" /\ \A j \in 1..(i - 1) : text[j] # ":"
         IN  <<SubSeq(text, 1, at - 1)>> \o Split(SubSeq(text, at + 1, Len(text)))

\* parse_time
ParseTime(time_str) ==
    LET parts == Split(time_str)
        Failed == [raised |-> TRUE, value |-> 0]
    IN  IF IsDigitText(time_str) THEN [raised |-> FALSE, value |-> TextValue(time_str)]
        ELSE IF Len(parts) = 2
        THEN LET minutes == IntOf(parts[1])
                 seconds == IntOf(parts[2])
             IN  IF minutes.raised \/ seconds.raised THEN Failed
                 ELSE [raised |-> FALSE,
                       value |-> minutes.value * SecondsPerMinute + seconds.value]
        ELSE IF Len(parts) = 3
        THEN LET hours == IntOf(parts[1])
                 minutes == IntOf(parts[2])
                 seconds == IntOf(parts[3])
             IN  IF hours.raised \/ minutes.raised \/ seconds.raised THEN Failed
                 ELSE [raised |-> FALSE,
                       value |-> hours.value * SecondsPerHour
                                    + minutes.value * SecondsPerMinute + seconds.value]
        ELSE Failed

(***************************************************************************)
(* check_ffmpeg.  For each tool the environment says what --ffmpeg-path /  *)
(* MOVIECLIPPER_FFMPEG names ("no": not given, "ok", "nofile", "noexec"),  *)
(* whether the tool is on PATH, whether imageio-ffmpeg supplies ffmpeg,    *)
(* whether an executable ffprobe sits next to ffmpeg, and whether the tool *)
(* runs with -version.                                                     *)
(***************************************************************************)
\* ffmpeg.with_name("ffprobe")
WithName(ffmpeg) ==
    CASE ffmpeg = "/opt/a/ffmpeg" -> "/opt/a/ffprobe"
      [] ffmpeg = "/opt/e/ffmpeg" -> "/opt/e/ffprobe"
      [] ffmpeg = "/pkg/ffmpeg" -> "/pkg/ffprobe"
      [] OTHER -> "/usr/bin/ffprobe"

\* _resolve_executable that asks the environment variable first
ResolveExecutable_EnvFirst(candidate, variable, on_path, paths) ==
    LET value == IF variable # "no" THEN variable ELSE candidate
    IN  IF value \in {"nofile", "noexec"} THEN [raised |-> TRUE, path |-> NoPath]
        ELSE IF value = "ok"
        THEN [raised |-> FALSE, path |-> IF variable # "no" THEN paths[2] ELSE paths[1]]
        ELSE [raised |-> FALSE, path |-> IF on_path THEN paths[3] ELSE NoPath]

\* _resolve_executable: candidate is what the option names, variable what
\* the environment variable names ("no": not set, "ok": an executable
\* file, "nofile", "noexec"); paths are the three paths that may be returned
ResolveExecutable(candidate, variable, on_path, paths) ==
    LET value == IF candidate # "no" THEN candidate ELSE variable
    IN  IF value \in {"nofile", "noexec"} THEN [raised |-> TRUE, path |-> NoPath]
        ELSE IF value = "ok"
        THEN [raised |-> FALSE, path |-> IF candidate # "no" THEN paths[1] ELSE paths[2]]
        ELSE [raised |-> FALSE, path |-> IF on_path THEN paths[3] ELSE NoPath]

\* check_ffmpeg after resolve_ffmpeg_tools: exit is Running when it returns
CheckFfmpeg(env, require_ffprobe) ==
    LET first == ResolveExecutable(env.ffmpeg, env.ffmpeg_var, env.ffmpeg_on_path,
                                   <<"/opt/a/ffmpeg", "/opt/e/ffmpeg", "/usr/bin/ffmpeg">>)
        ffmpeg == IF first.path = NoPath /\ env.imageio THEN "/pkg/ffmpeg" ELSE first.path
        second == ResolveExecutable(env.ffprobe, env.ffprobe_var, env.ffprobe_on_path,
                                    <<"/opt/x/ffprobe", "/opt/y/ffprobe", "/usr/bin/ffprobe">>)
        ffprobe == IF second.path = NoPath /\ env.sibling THEN WithName(ffmpeg)
                   ELSE second.path
        Stop(versions) ==
            [exit |-> 1, ffmpeg |-> NoPath, ffprobe |-> NoPath, versions |-> versions,
             warned |-> FALSE]
    IN  IF first.raised THEN Stop(0)
        ELSE IF ffmpeg = NoPath THEN Stop(0)
        ELSE IF second.raised THEN Stop(0)
        ELSE IF ~env.ffmpeg_runs THEN Stop(1)
        ELSE IF ffprobe # NoPath /\ ~env.ffprobe_runs THEN Stop(2)
        ELSE IF ffprobe = NoPath /\ require_ffprobe THEN Stop(1)
        ELSE [exit |-> Running, ffmpeg |-> ffmpeg, ffprobe |-> ffprobe,
              versions |-> IF ffprobe = NoPath THEN 1 ELSE 2,
              warned |-> ffprobe = NoPath]

GoodEnv ==
    [ffmpeg |-> "no", ffmpeg_var |-> "no", ffmpeg_on_path |-> TRUE, imageio |-> FALSE,
     ffmpeg_runs |-> TRUE,
     ffprobe |-> "no", ffprobe_var |-> "no", ffprobe_on_path |-> TRUE, sibling |-> FALSE,
     ffprobe_runs |-> TRUE]

ToolEnvs ==
    {GoodEnv,
     [GoodEnv EXCEPT !.ffprobe_on_path = FALSE],
     [GoodEnv EXCEPT !.ffmpeg = "nofile"],
     [GoodEnv EXCEPT !.ffmpeg_var = "noexec"],
     [GoodEnv EXCEPT !.ffmpeg = "ok", !.ffmpeg_var = "nofile", !.ffprobe_var = "ok"],
     [GoodEnv EXCEPT !.ffmpeg_on_path = FALSE],
     [GoodEnv EXCEPT !.ffmpeg_runs = FALSE],
     [GoodEnv EXCEPT !.ffprobe = "noexec"],
     [GoodEnv EXCEPT !.ffprobe_runs = FALSE],
     [GoodEnv EXCEPT !.ffmpeg_on_path = FALSE, !.imageio = TRUE, !.ffprobe_on_path = FALSE,
                     !.sibling = TRUE, !.ffprobe_runs = FALSE]}

(***************************************************************************)
(* main, for a clipping invocation (none of --check, --setup,              *)
(* --clear-cache, --cache-info).  The library is the file system of the    *)
(* cache model; ratio scores the names of its files and directories.       *)
(***************************************************************************)
PathRecord(p) ==
    CASE p = 1 -> [stem |-> "A", parent |-> "m", grand |-> "", at |-> "/m/A.mkv"]
      [] p = 2 -> [stem |-> "B", parent |-> "m", grand |-> "", at |-> "/m/B.MP4"]
      [] p = 3 -> [stem |-> "C", parent |-> "L", grand |-> "m", at |-> "/m/L/C.mkv"]
      [] p = 4 -> [stem |-> "notes", parent |-> "m", grand |-> "", at |-> "/m/notes.txt"]
      [] OTHER -> [stem |-> "D", parent |-> "n", grand |-> "", at |-> "/n/D.mkv"]

PathRecords(paths) == [i \in 1..Len(paths) |-> PathRecord(paths[i])]

MainNames == {"a", "b", "c", "m", "l"}

MainRatios(query) ==
    IF query \in {"", "~/clip.mkv"} THEN {[name \in MainNames |-> 0]}
    ELSE {r \in {[name \in MainNames |->
                     CASE name = "a" -> a [] name = "b" -> b [] name = "l" -> l [] OTHER -> 0] :
                    a \in {0, ExactScore}, b \in {0, AutoSelectScore}, l \in {0, AutoSelectScore}} :
            LowerName(query) \in MainNames => r[LowerName(query)] = ExactScore}

MainArgs ==
    UNION {[fn : {"main"},
            query : {query},
            home : IF query = "~/clip.mkv"
                   THEN [HomePaths -> {"file", "dir"}]
                   ELSE {[p \in HomePaths |-> "none"]},
            ratio : MainRatios(query)] : query \in {"", "~/clip.mkv", "A", "zzzz"}}

TimeTexts ==
    {<<"9", "0">>, <<"-", "1", ":", "3", "0">>, <<"a", "b", "c">>,
     <<"1", ":", "2", ":", "3", ":", "4">>}

MainProbes ==
    {[kind |-> "cannot_start", streams |-> <<>>],
     [kind |-> "ok", streams |-> <<>>],
     [kind |-> "ok", streams |-> <<[tagged |-> TRUE, language |-> Fre],
                                   [tagged |-> TRUE, language |-> Eng]>>]}

\* main is entered; nothing has been done
Invoked == [Resolving EXCEPT !.phase = "Idle"]

\* the phase main is in: once select_movie_file has returned, main asks
\* for and parses the times
Phase == IF ret.phase = "Resolving" /\ ret.step = "returned" THEN "TimeParsing" ELSE ret.phase

\* the locals of select_movie_file are gone when it has returned
Back(r) ==
    [r EXCEPT !.step = "none", !.movie_files = <<>>, !.matches = <<>>, !.shown = <<>>]

\* main up to the call of select_movie_file
Main ==
    /\ ret.phase = "Idle"
    /\ arg.fn = "main"
    /\ IF arg.query = ""
       THEN ret' = Exited(ret, 1)
       ELSE \E env \in ToolEnvs :
               LET tools == CheckFfmpeg(env, FALSE)
               IN  ret' = IF tools.exit # Running
                          THEN [Exited(ret, tools.exit) EXCEPT !.env = env,
                                                               !.versions = tools.versions]
                          ELSE [ret EXCEPT !.phase = "Resolving", !.step = "start",
                                           !.env = env, !.ffprobe = tools.ffprobe,
                                           !.versions = tools.versions, !.before = files]
    /\ UNCHANGED <<cacheVars, arg>>

\* select_movie_file calls find_movie_files
SelectFind ==
    /\ ret.phase = "Resolving"
    /\ ret.step = "finding"
    /\ last = NoOp
    /\ FindMovieFiles(config, config.movies_dir, config.video_extensions,
                      config.follow_symlinks)

\* select_movie_file goes on with what find_movie_files returned
SelectFound ==
    /\ pc = "idle"
    /\ last.op = "find"
    /\ IF last.kind = "raise"
       THEN /\ ret.phase = "Resolving"
            /\ ret.step = "finding"
            /\ ret' = Uncaught(ret)
            /\ UNCHANGED <<cacheVars, arg>>
       ELSE SelectAmong(PathRecords(last.result))

\* main: the two times are asked for, if not given, and parsed
ParseTimes ==
    /\ Phase = "TimeParsing"
    /\ \E start \in TimeTexts : \E duration \in TimeTexts :
          LET start_seconds == ParseTime(start)
              duration_seconds == ParseTime(duration)
              given == [Back(ret) EXCEPT !.start = start, !.duration = duration]
          IN  ret' = IF start_seconds.raised \/ duration_seconds.raised
                     THEN Exited(given, 1)
                     ELSE [given EXCEPT !.phase = "CommandBuilding",
                                        !.start_seconds = start_seconds.value,
                                        !.duration_seconds = duration_seconds.value]
    /\ UNCHANGED <<cacheVars, arg>>

\* main: build_ffmpeg_command
MainBuild ==
    /\ ret.phase = "CommandBuilding"
    /\ \E preserve_audio \in BOOLEAN : \E probe \in MainProbes :
          LET built == BuildFfmpegCommand(ret.selected.at, ret.start_seconds,
                                          ret.duration_seconds, "/clips/out.mp4",
                                          "/usr/bin/ffmpeg", ret.ffprobe, preserve_audio,
                                          NoLang, TRUE, AudioSettings, probe)
          IN  ret' = IF built.raised THEN Uncaught(ret)
                     ELSE [ret EXCEPT !.phase = "Confirming", !.command = built.command]
    /\ UNCHANGED <<cacheVars, arg>>

\* Confirm.ask answers yes whatever the user says
Proceeds_Always(answer) == TRUE

\* Confirm.ask("Proceed with clipping?")
Proceeds(answer) == answer

\* main: the confirmation
Confirm ==
    /\ ret.phase = "Confirming"
    /\ \E answer \in BOOLEAN :
          ret' = IF Proceeds(answer)
                 THEN [ret EXCEPT !.phase = "Executing", !.asked = TRUE, !.proceed = answer]
                 ELSE [ret EXCEPT !.done = TRUE, !.phase = "Cancelled", !.exit = 0,
                                  !.asked = TRUE, !.proceed = answer]
    /\ UNCHANGED <<cacheVars, arg>>

\* execute_ffmpeg that reports success whatever the tool did
ExecuteFfmpeg_AlwaysTrue(outcome) ==
    [raised |-> outcome = "cannot_start", success |-> TRUE]

\* execute_ffmpeg: subprocess.run(check=True); only CalledProcessError is
\* caught
ExecuteFfmpeg(outcome) ==
    [raised |-> outcome = "cannot_start", success |-> outcome = "ok"]

\* main: execute_ffmpeg and the exit
Execute ==
    /\ ret.phase = "Executing"
    /\ \E outcome \in {"ok", "nonzero", "cannot_start"} :
          LET ran == [ret EXCEPT !.runs = @ + 1, !.outcome = outcome]
              result == ExecuteFfmpeg(outcome)
          IN  ret' = IF result.raised THEN Uncaught(ran)
                     ELSE IF result.success
                     THEN [ran EXCEPT !.done = TRUE, !.phase = "Succeeded", !.exit = 0]
                     ELSE Exited(ran, 1)
    /\ UNCHANGED <<cacheVars, arg>>

\* the process is gone; the user runs the tool again
Rerun ==
    /\ ret.done
    /\ arg.fn = "main"
    /\ arg' \in MainArgs
    /\ ret' = Invoked
    /\ last' = NoOp
    /\ UNCHANGED <<fs, now, config, files, medium, pc, pending>>

InitMain ==
    /\ fs \in {f \in AllFs : f[3] = "file"}
    /\ now = 0
    /\ config \in ConfigsOver({"/m"}, {E2}, BOOLEAN, {MaxTtl}, {NoLocation})
    /\ files = [l \in Locations |-> Absent]
    /\ medium = [l \in Locations |-> "ok"]
    /\ pc = "idle"
    /\ pending = NoOp
    /\ last = NoOp
    /\ arg \in MainArgs
    /\ ret = Invoked

NextMain ==
    \/ Main
    \/ SelectMovieFile
    \/ SelectFind
    \/ SaveOpen
    \/ SaveWrite
    \/ Return
    \/ SelectFound
    \/ Answer
    \/ ParseTimes
    \/ MainBuild
    \/ Confirm
    \/ Execute
    \/ Rerun

SpecMain == InitMain /\ [][NextMain]_vars

(***************************************************************************)
(* Properties of a clipping invocation.                                    *)
(***************************************************************************)
\* C13: a query that, after ~ expansion, is the path of an existing
\* regular file is returned as that path without matching: no cache load,
\* no scan, no cache write, no prompt; nothing else is returned that way.
C13_DirectFile ==
    LET IsFile == arg.query = "~/clip.mkv" /\ arg.home["/home/u/clip.mkv"] = "file"
    IN  /\ (arg.fn = "main" /\ ret.step # "start" /\ IsFile) =>
              /\ ret.how = "direct"
              /\ ret.selected.at = "/home/u/clip.mkv"
              /\ ret.prompts = 0
              /\ ret.matches = <<>>
              /\ last = NoOp
              /\ pc = "idle"
              /\ files = ret.before
        /\ ret.how = "direct" => IsFile

C13_Witness ==
    /\ ret.how = "direct"
    /\ Phase = "TimeParsing"
    /\ config.cache_enabled
    /\ files["new"].kind = "record"
    /\ ret.before = files

Successor(phase) ==
    CASE phase = "Idle" -> "Resolving"
      [] phase = "Resolving" -> "TimeParsing"
      [] phase = "TimeParsing" -> "CommandBuilding"
      [] phase = "CommandBuilding" -> "Confirming"
      [] phase = "Confirming" -> "Executing"
      [] phase = "Executing" -> "Succeeded"
      [] OTHER -> "none"

Prepared ==
    /\ ret.selected # None
    /\ ret.start # <<>>
    /\ ret.duration # <<>>
    /\ ret.command # <<>>
    /\ ret.asked
    /\ ret.proceed

C19_Executed ==
    /\ ret.runs \in {0, 1}
    /\ (ret.runs = 1 \/ Phase = "Executing") => Prepared
    /\ ret.runs = 1 => Phase \in {"Succeeded", "Failed"}
    /\ Phase = "Succeeded" => ret.runs = 1
    /\ ret.done <=> Phase \in {"Succeeded", "Failed", "Cancelled"}

C19_Step ==
    /\ Phase' # Phase =>
          \/ ~ret.done /\ Phase' = Successor(Phase)
          \/ ~ret.done /\ Phase' = "Failed"
          \/ Phase = "Confirming" /\ Phase' = "Cancelled"
          \/ ret.done /\ Phase' = "Idle" /\ ret'.runs = 0
    /\ ret.done => (ret' = ret \/ Phase' = "Idle")
    /\ ret'.runs # ret.runs =>
          \/ Phase = "Executing" /\ ret'.runs = 1 /\ ret'.done
          \/ ret.done /\ Phase' = "Idle"

\* C19: an invocation moves only from a phase to the next one, in the
\* order Idle, Resolving, TimeParsing, CommandBuilding, Confirming,
\* Executing, and ends Succeeded or Failed (or at a declined
\* confirmation); the clip command is executed only with a file selected,
\* both times parsed, the command built and the confirmation accepted, at
\* most once, and a failure ends the invocation where it happens.
C19_PhaseOrder == []C19_Executed /\ [][C19_Step]_vars

C19_Witness ==
    /\ Phase = "Failed"
    /\ ret.runs = 1
    /\ ret.outcome = "nonzero"
    /\ ret.how = "chosen"

ToolsUnusable(env) ==
    \/ env.ffmpeg \in {"nofile", "noexec"}
    \/ env.ffmpeg = "no" /\ env.ffmpeg_var \in {"nofile", "noexec"}
    \/ env.ffmpeg = "no" /\ env.ffmpeg_var = "no" /\ ~env.ffmpeg_on_path /\ ~env.imageio
    \/ ~env.ffmpeg_runs
    \/ env.ffprobe \in {"nofile", "noexec"}
    \/ env.ffprobe = "no" /\ env.ffprobe_var \in {"nofile", "noexec"}
    \/ /\ env.ffprobe = "ok" \/ env.ffprobe_var = "ok" \/ env.ffprobe_on_path \/ env.sibling
       /\ ~env.ffprobe_runs

Malformed == {<<"a", "b", "c">>, <<"1", ":", "2", ":", "3", ":", "4">>}

MaxParts == 4    \* a time text has up to MaxParts components

TimeParts ==
    {<<>>, <<"1">>, <<"2">>, <<"0", "5">>, <<"3", "0">>, <<"-", "1">>, <<"x">>,
     <<"3", "0", ".", "5">>}

RECURSIVE Join(_)
Join(parts) ==
    IF Len(parts) = 1 THEN parts[1] ELSE parts[1] \o <<":">> \o Join(Tail(parts))

TimeStrings == {Join(parts) : parts \in UNION {[1..n -> TimeParts] : n \in 1..MaxParts}}

\* s.replace(":", "h", 1).replace(":", "m", 1) + "s"
Stamp(text) ==
    LET ReplaceFirst(s, new) ==
            IF \A i \in 1..Len(s) : s[i] # ":" THEN s
            ELSE LET at == CHOOSE i \in 1..Len(s) :
                               s[i] = ":" /\ \A j \in 1..(i - 1) : s[j] # ":"
                 IN  [s EXCEPT ![at] = new]
    IN  ReplaceFirst(ReplaceFirst(text, "h"), "m") \o <<"s">>

\* (19|20)\d{2}
IsYear(word) == word \in {"1999", "2008"}

\* (BluRay|WEB|HDTV|DVDRip), re.IGNORECASE
IsQuality(word) == word \in {"BluRay", "bluray", "WEB", "HDTV", "DVDRip"}

\* x26[45].*, re.IGNORECASE
IsCodec(word) == word \in {"x264", "X265", "x264-GRP"}

Words == {"Iron", "Man", "1080p", "20081", "1999", "2008", "BluRay", "bluray", "x264", "x264-GRP"}

Marks(kind, word) ==
    CASE kind = "year" -> IsYear(word)
      [] kind = "quality" -> IsQuality(word)
      [] OTHER -> IsCodec(word)

\* re.sub(pattern, "", name) for a pattern that ends in .* : the name up to
\* the first marker that has a dot before it and, if inside, a dot after it
Cut(stem, kind, inside) ==
    LET hits == {i \in 2..(IF inside THEN Len(stem) - 1 ELSE Len(stem)) : Marks(kind, stem[i])}
    IN  IF hits = {} THEN stem
        ELSE SubSeq(stem, 1, (CHOOSE i \in hits : \A j \in hits : i <= j) - 1)

\* generate_output_filename; the name without dots is the sequence of words
GenerateOutputFilename(stem, start_seconds, end_seconds) ==
    LET movie_name == Cut(Cut(Cut(stem, "year", TRUE), "quality", TRUE), "codec", FALSE)
    IN  [movie_name |-> movie_name,
         start_formatted |-> Stamp(FormatTime(start_seconds)),
         end_formatted |-> Stamp(FormatTime(end_seconds)),
         suffix |-> ".mp4"]

NoParse == [raised |-> TRUE, value |-> 0]

InitText ==
    /\ Quiet
    /\ \/ arg \in [fn : {"parse_time"}, time_str : TimeStrings]
       \/ arg \in [fn : {"generate_output_filename"},
                   stem : UNION {[1..n -> Words] : n \in 1..3},
                   start_seconds : {0, 60, 3723},
                   duration_seconds : {20, 60}]
    /\ ret = [done |-> FALSE, step |-> "start", val |-> NoParse, text |-> <<>>,
              again |-> NoParse]

\* parse_time(time_str)
ParseGiven ==
    /\ arg.fn = "parse_time"
    /\ ret.step = "start"
    /\ ret' = [ret EXCEPT !.step = "parsed", !.val = ParseTime(arg.time_str),
                          !.done = ParseTime(arg.time_str).raised]
    /\ UNCHANGED <<cacheVars, arg>>

\* format_time of the value parsed
FormatParsed ==
    /\ arg.fn = "parse_time"
    /\ ret.step = "parsed"
    /\ ~ret.val.raised
    /\ ret' = [ret EXCEPT !.step = "formatted", !.text = FormatTime(ret.val.value)]
    /\ UNCHANGED <<cacheVars, arg>>

\* parse_time of the text format_time gave
ParseFormatted ==
    /\ arg.fn = "parse_time"
    /\ ret.step = "formatted"
    /\ ret' = [ret EXCEPT !.step = "reparsed", !.again = ParseTime(ret.text), !.done = TRUE]
    /\ UNCHANGED <<cacheVars, arg>>

\* generate_output_filename as main calls it, end = start + duration
NameOutput ==
    /\ arg.fn = "generate_output_filename"
    /\ ret.step = "start"
    /\ ret' = [done |-> TRUE, step |-> "named",
               val |-> GenerateOutputFilename(arg.stem, arg.start_seconds,
                                              arg.start_seconds + arg.duration_seconds),
               text |-> <<>>, again |-> NoParse]
    /\ UNCHANGED <<cacheVars, arg>>

NextText ==
    \/ ParseGiven
    \/ FormatParsed
    \/ ParseFormatted
    \/ NameOutput

SpecText == InitText /\ [][NextText]_vars

\* digits, or digits "." digit
IsNumber(part) ==
    \/ IsDigitText(part)
    \/ /\ Len(part) >= 3
       /\ part[Len(part) - 1] = "."
       /\ IsDigitText(SubSeq(part, 1, Len(part) - 2))
       /\ IsDigit(part[Len(part)])

\* the value of a number, in tenths
Tenths(part) ==
    IF IsDigitText(part) THEN TextValue(part) * 10
    ELSE TextValue(SubSeq(part, 1, Len(part) - 2)) * 10 + DigitValue(part[Len(part)])

ValidTime(text) ==
    LET parts == Split(text)
    IN  /\ Len(parts) \in 1..3
        /\ \A i \in 1..(Len(parts) - 1) : IsDigitText(parts[i])
        /\ IsNumber(parts[Len(parts)])

ExpectedTenths(text) ==
    LET parts == Split(text)
        n == Len(parts)
    IN  Tenths(parts[n])
          + (IF n >= 2 THEN TextValue(parts[n - 1]) * 600 ELSE 0)
          + (IF n = 3 THEN TextValue(parts[1]) * 36000 ELSE 0)

\* C21: parse_time returns hours*3600 + minutes*60 + seconds for a text of
\* one to three numeric components (the last one may have a fraction),
\* raises ValueError for every other text, and never returns a negative
\* value.
C21_ParseTime ==
    (arg.fn = "parse_time" /\ ret.step = "parsed") =>
        /\ ValidTime(arg.time_str) =>
              (~ret.val.raised /\ ret.val.value * 10 = ExpectedTenths(arg.time_str))
        /\ ~ValidTime(arg.time_str) => ret.val.raised
        /\ ~ret.val.raised => ret.val.value >= 0

\* C21 for the texts whose components are all whole numbers
C21_WholeNumbers ==
    (arg.fn = "parse_time" /\ ret.step = "parsed" /\ ValidTime(arg.time_str)
       /\ \A i \in 1..Len(arg.time_str) : arg.time_str[i] # ".") =>
        (~ret.val.raised /\ ret.val.value * 10 = ExpectedTenths(arg.time_str))

\* C22: for every valid time text, format_time(parse_time(s)) is the
\* canonical HH:MM:SS text of the same duration, and parsing that text
\* again gives the same number of seconds.
C22_RoundTrip ==
    (arg.fn = "parse_time" /\ ValidTime(arg.time_str)) =>
        /\ ret.step = "parsed" => ~ret.val.raised
        /\ ret.step \in {"formatted", "reparsed"} =>
              /\ ExpectedTenths(arg.time_str) % 10 = 0
              /\ Canonical(ret.text, ExpectedTenths(arg.time_str) \div 10)
        /\ ret.step = "reparsed" =>
              (~ret.again.raised /\ ret.again.value * 10 = ExpectedTenths(arg.time_str))

\* C22 for the texts whose components are all whole numbers
C22_WholeNumbers ==
    (arg.fn = "parse_time" /\ ValidTime(arg.time_str)
       /\ \A i \in 1..Len(arg.time_str) : arg.time_str[i] # ".") =>
        /\ ret.step = "parsed" => ~ret.val.raised
        /\ ret.step \in {"formatted", "reparsed"} =>
              Canonical(ret.text, ExpectedTenths(arg.time_str) \div 10)
        /\ ret.step = "reparsed" =>
              (~ret.again.raised /\ ret.again.value * 10 = ExpectedTenths(arg.time_str))

\* HHhMMmSSs of a number of seconds
IsStamp(text, seconds) ==
    LET n == Len(text)
    IN  /\ n >= 9
        /\ text[n] = "s"
        /\ text[n - 3] = "m"
        /\ text[n - 6] = "h"
        /\ Canonical([i \in 1..(n - 1) |-> IF i \in {n - 3, n - 6} THEN ":" ELSE text[i]],
                     seconds)

IsMarker(word) == IsYear(word) \/ IsQuality(word) \/ IsCodec(word)

\* C23: generate_output_filename returns <title>_<stamp>_to_<stamp>.mp4,
\* the stamps being HHhMMmSSs of the start and of start + duration, and the
\* title the base name cut at its first year, quality or codec marker, so
\* that no marker is left in it, without the dots.
C23_OutputFilename ==
    (arg.fn = "generate_output_filename" /\ ret.done) =>
        LET stem == arg.stem
            marks == {i \in 2..Len(stem) : IsMarker(stem[i])}
            title == IF marks = {} THEN stem
                     ELSE SubSeq(stem, 1, (CHOOSE i \in marks : \A j \in marks : i <= j) - 1)
        IN  /\ ret.val.movie_name = title
            /\ IsStamp(ret.val.start_formatted, arg.start_seconds)
            /\ IsStamp(ret.val.end_formatted, arg.start_seconds + arg.duration_seconds)
            /\ ret.val.suffix = ".mp4"

\* C23 for the base names in which every marker has a component after it
C23_MarkersInside ==
    (arg.fn = "generate_output_filename" /\ ret.done
       /\ ~IsMarker(arg.stem[Len(arg.stem)])) => C23_OutputFilename

(***************************************************************************)
(* iter_movie_files step by step.  os.walk is given as the sequence of     *)
(* what it does: it yields a directory it could read, or it reports a      *)
(* directory-read error to onerror and goes on.  A directory is yielded at *)
(* most once, /m/L after /m and only when links are followed.              *)
(***************************************************************************)
MaxEvents == 3    \* os.walk yields or reports up to MaxEvents times

NoName == "None"

WalkErrors ==
    [ev : {"error"}, errno : {"EACCES", "EPERM", "ENOENT"}, filename : {"/m/S", NoName}]

WalkEvents == WalkErrors \cup [ev : {"dir"}, root : {"/m", "/m/L"}]

DirOf(p) == IF UnderLinkedDir(p) THEN "/m/L" ELSE RootOf(p)

Walks(follow_symlinks) ==
    {w \in UNION {[1..n -> WalkEvents] : n \in 0..MaxEvents} :
        /\ \A i, j \in 1..Len(w) :
              (i < j /\ w[i].ev = "dir" /\ w[j].ev = "dir") =>
                  (w[i].root = "/m" /\ w[j].root = "/m/L")
        /\ \A j \in 1..Len(w) :
              (w[j].ev = "dir" /\ w[j].root = "/m/L") =>
                  (follow_symlinks /\ \E i \in 1..(j - 1) : w[i].ev = "dir")}

\* handle_walk_error that warns every time
HandleWalkError_NoDedupe(r, error) ==
    IF error.errno \notin {"EACCES", "EPERM"} THEN r
    ELSE [r EXCEPT !.warned = @ \cup {<<error.errno, error.filename>>},
                   !.warnings = Append(@, <<error.errno, error.filename>>)]

\* handle_walk_error
HandleWalkError(r, error) ==
    IF error.errno \notin {"EACCES", "EPERM"} THEN r
    ELSE IF <<error.errno, error.filename>> \in r.warned THEN r
    ELSE [r EXCEPT !.warned = @ \cup {<<error.errno, error.filename>>},
                   !.warnings = Append(@, <<error.errno, error.filename>>)]

\* the body of the loop over os.walk for one directory
CollectFiles(r, f, root, extensions, follow_symlinks) ==
    LET extensions_lower == {Lower(extensions[i]) : i \in 1..Len(extensions)}
        names == SortedSeqOf({p \in Paths : f[p] # "none" /\ DirOf(p) = root})
        Keep(p) == /\ Lower(SuffixOf(p)) \in extensions_lower
                   /\ ~(~follow_symlinks /\ IsSymlink(f, p))
    IN  [r EXCEPT !.movie_files = @ \o SelectSeq(names, Keep)]

InitWalk ==
    /\ Quiet
    /\ \E follow_symlinks \in BOOLEAN :
          arg \in [fn : {"iter_movie_files"},
                   fs : {f \in AllFs : f[5] = "file"},
                   extensions : {E1, E2, <<".MKV">>},
                   follow_symlinks : {follow_symlinks},
                   walk : Walks(follow_symlinks)]
    /\ ret = [done |-> FALSE, at |-> 1, warned |-> {}, warnings |-> <<>>,
              movie_files |-> <<>>, result |-> <<>>]

\* os.walk reports an error
WalkError ==
    /\ arg.fn = "iter_movie_files"
    /\ ~ret.done
    /\ ret.at <= Len(arg.walk)
    /\ arg.walk[ret.at].ev = "error"
    /\ ret' = [HandleWalkError(ret, arg.walk[ret.at]) EXCEPT !.at = ret.at + 1]
    /\ UNCHANGED <<cacheVars, arg>>

\* os.walk yields a directory
WalkDirectory ==
    /\ arg.fn = "iter_movie_files"
    /\ ~ret.done
    /\ ret.at <= Len(arg.walk)
    /\ arg.walk[ret.at].ev = "dir"
    /\ ret' = [CollectFiles(ret, arg.fs, arg.walk[ret.at].root, arg.extensions,
                            arg.follow_symlinks) EXCEPT !.at = ret.at + 1]
    /\ UNCHANGED <<cacheVars, arg>>

\* os.walk is exhausted: return sorted(movie_files)
WalkReturn ==
    /\ arg.fn = "iter_movie_files"
    /\ ~ret.done
    /\ ret.at > Len(arg.walk)
    /\ ret' = [ret EXCEPT !.done = TRUE, !.result = Sorted(ret.movie_files)]
    /\ UNCHANGED <<cacheVars, arg>>

NextWalk ==
    \/ WalkError
    \/ WalkDirectory
    \/ WalkReturn

SpecWalk == InitWalk /\ [][NextWalk]_vars

\* the directories os.walk yielded
Yielded == {arg.walk[i].root : i \in {j \in 1..Len(arg.walk) : arg.walk[j].ev = "dir"}}

\* every directory of the tree was read
WholeTree == Yielded = IF arg.follow_symlinks THEN {"/m", "/m/L"} ELSE {"/m"}

MatchesExtension(p) ==
    \E i \in 1..Len(arg.extensions) :
        \/ arg.extensions[i] = SuffixOf(p)
        \/ arg.extensions[i] = ".mkv" /\ SuffixOf(p) = ".MKV"
        \/ arg.extensions[i] = ".MKV" /\ SuffixOf(p) = ".mkv"
        \/ arg.extensions[i] = ".mp4" /\ SuffixOf(p) = ".MP4"
        \/ arg.extensions[i] = ".MP4" /\ SuffixOf(p) = ".mp4"

\* what the symlink policy lets through, among the entries of kinds
Policy(kinds) ==
    {p \in Paths : /\ RootOf(p) = "/m"
                   /\ arg.fs[p] \in kinds
                   /\ MatchesExtension(p)
                   /\ (~arg.follow_symlinks => (arg.fs[p] = "file" /\ ~UnderLinkedDir(p)))}

\* C24: iter_movie_files returns, sorted by path, exactly the files of the
\* tree whose extension matches a configured one whatever the case;
\* without follow_symlinks no symlinked file, with it the real files, the
\* symlinked files and the files under a symlinked directory.
C24_IterMovieFiles ==
    (arg.fn = "iter_movie_files" /\ ret.done /\ WholeTree) =>
        /\ \A i \in 1..(Len(ret.result) - 1) : ret.result[i] < ret.result[i + 1]
        /\ Range(ret.result) = Policy({"file", "link"})

\* C24 with a dangling symlink counted among the files of the tree
C24_ListedEntries ==
    (arg.fn = "iter_movie_files" /\ ret.done /\ WholeTree) =>
        /\ \A i \in 1..(Len(ret.result) - 1) : ret.result[i] < ret.result[i + 1]
        /\ Range(ret.result) = Policy({"file", "link", "broken"})
        /\ ret.result = IterMovieFiles(arg.fs, "/m", arg.extensions, arg.follow_symlinks)

\* C25: in one traversal every (error code, path) pair of a permission
\* error (EACCES, EPERM) is warned about once, at its first occurrence;
\* other errors are not warned about; the traversal goes on after every
\* error and returns the matching files of the directories it read.
C25_WarnOnce ==
    arg.fn = "iter_movie_files" =>
        LET seen == {i \in 1..(ret.at - 1) : arg.walk[i].ev = "error"}
            denied == {i \in seen : arg.walk[i].errno \in {"EACCES", "EPERM"}}
            Pair(i) == <<arg.walk[i].errno, arg.walk[i].filename>>
        IN  /\ \A i, j \in 1..Len(ret.warnings) :
                  ret.warnings[i] = ret.warnings[j] => i = j
            /\ Range(ret.warnings) = {Pair(i) : i \in denied}
            /\ ret.done =>
                  /\ ret.at = Len(arg.walk) + 1
                  /\ Range(ret.result) =
                        {p \in Policy({"file", "link", "broken"}) : DirOf(p) \in Yielded}

C25_Witness ==
    /\ arg.fn = "iter_movie_files"
    /\ ret.done
    /\ Len(arg.walk) = 3
    /\ arg.walk[1] = arg.walk[2]
    /\ arg.walk[1].ev = "error"
    /\ arg.walk[1].errno = "EACCES"
    /\ arg.walk[3].ev = "dir"
    /\ Len(ret.warnings) = 1
    /\ ret.result # <<>>

\* C26: without follow_symlinks no file under a symlinked directory is in
\* the result of find_movie_files, and with either setting no broken
\* symlink is in it, with the cache enabled or disabled.
C26_BrokenLinksSkipped ==
    (last.op = "find" /\ last.kind \in {"live", "hit", "miss"}) =>
        /\ ~last.follow => \A p \in Range(last.result) : ~UnderLinkedDir(p)
        /\ \A p \in Range(last.result) : last.fsBefore[p] # "broken"

\* C26 for the calls that do not return a scan made with follow_symlinks
C26_CachedOrNotFollowing ==
    (last.op = "find" /\ last.kind \in {"live", "hit", "miss"}
       /\ (last.kind # "live" \/ ~last.follow)) =>
        /\ ~last.follow => \A p \in Range(last.result) : ~UnderLinkedDir(p)
        /\ \A p \in Range(last.result) : last.fsBefore[p] # "broken"

(***************************************************************************)
(* check_ffmpeg on its own, over every environment, followed by the probe  *)
(* of the audio streams that build_ffmpeg_command makes with the tools it  *)
(* is given.                                                               *)
(***************************************************************************)
Given == {"no", "ok", "nofile", "noexec"}

\* ffprobe next to an ffmpeg found on PATH is on PATH itself
AllToolEnvs ==
    {env \in [ffmpeg : Given, ffmpeg_var : Given, ffmpeg_on_path : BOOLEAN,
              imageio : BOOLEAN, ffmpeg_runs : BOOLEAN,
              ffprobe : Given, ffprobe_var : Given, ffprobe_on_path : BOOLEAN,
              sibling : BOOLEAN, ffprobe_runs : BOOLEAN] :
        (env.sibling /\ env.ffmpeg = "no" /\ env.ffmpeg_var = "no" /\ env.ffmpeg_on_path)
            => env.ffprobe_on_path}

InitTools ==
    /\ Quiet
    /\ arg \in [fn : {"check_ffmpeg"}, env : AllToolEnvs, require_ffprobe : BOOLEAN]
    /\ ret = [done |-> FALSE, step |-> "start", val |-> CheckFfmpeg(GoodEnv, FALSE),
              streams |-> DetectAudioStreams(NoPath, [kind |-> "ok", streams |-> <<>>])]

\* check_ffmpeg(ffmpeg_path, ffprobe_path, require_ffprobe)
CheckTools ==
    /\ arg.fn = "check_ffmpeg"
    /\ ret.step = "start"
    /\ LET tools == CheckFfmpeg(arg.env, arg.require_ffprobe)
       IN  ret' = [ret EXCEPT !.step = "checked", !.val = tools,
                              !.done = tools.exit # Running]
    /\ UNCHANGED <<cacheVars, arg>>

\* detect_audio_streams(movie_file, tools.ffprobe)
DetectWithTools ==
    /\ arg.fn = "check_ffmpeg"
    /\ ret.step = "checked"
    /\ ~ret.done
    /\ \E probe \in MainProbes :
          ret' = [ret EXCEPT !.step = "probed", !.done = TRUE,
                             !.streams = DetectAudioStreams(ret.val.ffprobe, probe)]
    /\ UNCHANGED <<cacheVars, arg>>

NextTools ==
    \/ CheckTools
    \/ DetectWithTools

SpecTools == InitTools /\ [][NextTools]_vars

\* what names the tool: the option, else the variable
Named(option, variable) == IF option # "no" THEN option ELSE variable

\* C27: ffmpeg is the path of the option, else of the environment
\* variable, else the one on PATH, else the bundled one; an option or
\* variable that names no executable file is fatal whatever else is
\* there; without ffmpeg check_ffmpeg exits with 1; without ffprobe alone
\* it warns and returns, and the streams are then the synthetic
\* descriptor, unless require_ffprobe was passed, which makes it fatal.
C27_ToolResolution ==
    (arg.fn = "check_ffmpeg" /\ ret.step # "start") =>
        LET env == arg.env
            tools == ret.val
            ffmpeg == Named(env.ffmpeg, env.ffmpeg_var)
            ffprobe == Named(env.ffprobe, env.ffprobe_var)
            noFfmpeg == ffmpeg = "no" /\ ~env.ffmpeg_on_path /\ ~env.imageio
            noFfprobe == ffprobe = "no" /\ ~env.ffprobe_on_path /\ ~env.sibling
        IN  /\ tools.exit \in {Running, 1}
            /\ (ffmpeg \in {"nofile", "noexec"} \/ ffprobe \in {"nofile", "noexec"})
                  => tools.exit = 1
            /\ noFfmpeg => tools.exit = 1
            /\ tools.exit = 1 => (ret.done /\ ret.step = "checked")
            /\ tools.exit = Running =>
                  /\ env.ffmpeg = "ok" => tools.ffmpeg = "/opt/a/ffmpeg"
                  /\ (env.ffmpeg = "no" /\ env.ffmpeg_var = "ok")
                        => tools.ffmpeg = "/opt/e/ffmpeg"
                  /\ (ffmpeg = "no" /\ env.ffmpeg_on_path) => tools.ffmpeg = "/usr/bin/ffmpeg"
                  /\ (ffmpeg = "no" /\ ~env.ffmpeg_on_path) => tools.ffmpeg = "/pkg/ffmpeg"
                  /\ env.ffprobe = "ok" => tools.ffprobe = "/opt/x/ffprobe"
                  /\ (env.ffprobe = "no" /\ env.ffprobe_var = "ok")
                        => tools.ffprobe = "/opt/y/ffprobe"
                  /\ env.ffmpeg_runs
            /\ (noFfprobe /\ arg.require_ffprobe) => tools.exit = 1
            /\ (noFfprobe /\ ~arg.require_ffprobe /\ ffmpeg \in {"no", "ok"} /\ ~noFfmpeg
                  /\ env.ffmpeg_runs) =>
                  /\ tools.exit = Running
                  /\ tools.warned
                  /\ tools.ffprobe = NoPath
                  /\ ret.step = "probed" =>
                        (ret.streams.value = Synthetic /\ ~ret.streams.ran
                           /\ ~ret.streams.raised)

C27_Witness ==
    /\ arg.fn = "check_ffmpeg"
    /\ ret.step = "probed"
    /\ arg.env.ffmpeg = "ok"
    /\ arg.env.ffmpeg_var = "ok"
    /\ arg.env.ffmpeg_on_path
    /\ arg.env.ffprobe = "no"
    /\ arg.env.ffprobe_var = "no"
    /\ ~arg.env.ffprobe_on_path
    /\ ~arg.env.sibling
    /\ ret.val.ffmpeg = "/opt/a/ffmpeg"
    /\ ret.val.warned
    /\ ret.streams.value = Synthetic

(***************************************************************************)
(* One call of find_movie_files after another.  Between two calls time     *)
(* passes and the library changes; last keeps the outcome of the call made *)
(* before.                                                                 *)
(***************************************************************************)
\* time passes between two calls
Later ==
    /\ pc = "idle"
    /\ \E t \in Times : t > now /\ now' = t
    /\ UNCHANGED <<fs, config, files, medium, pc, pending, last, arg, ret>>

\* the library changes between two calls
Meanwhile ==
    /\ pc = "idle"
    /\ \E p \in Paths : \E k \in KindsOf(p) \ {fs[p]} : fs' = [fs EXCEPT ![p] = k]
    /\ UNCHANGED <<now, config, files, medium, pc, pending, last, arg, ret>>

InitAgain ==
    /\ fs \in {f \in AllFs : f[3] = "file"}
    /\ now = 0
    /\ config \in ConfigsOver({"/m"}, {E1, E2}, {TRUE}, 1..MaxTtl, {NoLocation})
    /\ files \in {[l \in Locations |-> IF l = "old" THEN c ELSE Absent] :
                    c \in {Absent, RecordFile(LegacyRecord)}}
    /\ medium = [l \in Locations |-> "ok"]
    /\ pc = "idle"
    /\ pending = NoOp
    /\ last = NoOp
    /\ arg = Idle
    /\ ret = Idle

NextAgain ==
    \/ Find
    \/ SaveOpen
    \/ SaveWrite
    \/ Return
    \/ Later
    \/ Meanwhile

SpecAgain == InitAgain /\ [][NextAgain]_vars

\* the call that this step starts
Started == IF pc' = "save_open" THEN pending'.o ELSE last'

\* this step is a call of find_movie_files made after a call that rebuilt
\* the record and saved it, with the same arguments and configuration and
\* within the TTL of the record
CalledAgain ==
    /\ pc = "idle"
    /\ last.op = "find"
    /\ last.kind = "miss"
    /\ last.saved = "ok"
    /\ pc' = "save_open" \/ (last' # last /\ last'.op = "find")
    /\ Started.cv = last.cv
    /\ Started.dir = last.dir
    /\ Started.exts = last.exts
    /\ Started.follow = last.follow
    /\ Started.t - last.t <= last.cv.cache_ttl_hours * SecondsPerHour

ServedFromCache ==
    /\ pc' = "idle"
    /\ last'.kind = "hit"
    /\ last'.scans = 0
    /\ last'.loaded = RecordFile(last.built)
    /\ fs = last.fsBefore => last'.result = last.result

\* C29: the call of find_movie_files that follows a rebuild saved with
\* success, made with the same root directory, extensions, symlink flag
\* and configuration within the TTL, is a hit without a scan, and on an
\* unchanged file system it returns the same paths in the same order.
C29_RebuiltIsValid == [][CalledAgain => ServedFromCache]_vars

\* C29 for the calls whose extensions are those of the configuration
C29_ConfiguredExtensions ==
    [][(CalledAgain /\ last.exts = last.cv.video_extensions) => ServedFromCache]_vars

(***************************************************************************)
(* find_movie_files called with a configuration of the caller's, which     *)
(* need not be the one load_config() returns.                              *)
(***************************************************************************)
GivenConfigs == ConfigsOver({"/m"}, {E2}, {TRUE}, {MaxTtl}, {NoLocation, "custom"})

\* find_movie_files(movies_dir, extensions, follow_symlinks, config_value)
FindGiven ==
    \E config_value \in GivenConfigs :
        FindMovieFiles(config_value, config_value.movies_dir, config_value.video_extensions,
                       config_value.follow_symlinks)

InitGiven ==
    /\ fs \in {f \in AllFs : f[3] = "file"}
    /\ now = 0
    /\ config \in GivenConfigs
    /\ files \in {[l \in Locations |-> IF l = "old" THEN c ELSE Absent] :
                    c \in {Absent, RecordFile(LegacyRecord)}}
    /\ medium = [l \in Locations |-> "ok"]
    /\ pc = "idle"
    /\ pending = NoOp
    /\ last = NoOp
    /\ arg = Idle
    /\ ret = Idle

NextGiven ==
    \/ FindGiven
    \/ SaveOpen
    \/ SaveWrite
    \/ Return
    \/ Tick

SpecGiven == InitGiven /\ [][NextGiven]_vars

\* the cache file of a configuration, the files being fl
LocationFor(config_value, fl) ==
    IF config_value.cache_location # NoLocation THEN config_value.cache_location
    ELSE IF fl["new"] = Absent /\ fl["old"] # Absent THEN "old"
    ELSE "new"

\* what a load of the file at a location yields
Held(fl, location) == IF fl[location] = Absent THEN None ELSE fl[location]

\* the call in progress or just completed, if it used the cache
Current ==
    IF pc \in {"save_write", "save_return"} THEN pending.o
    ELSE IF last.op = "find" /\ last.kind \in {"hit", "miss"} THEN last
    ELSE NoOp

\* C30: a call of find_movie_files with an explicit configuration loads
\* the cache from the file that configuration designates and, on a miss,
\* saves to that same file, whatever the process-wide configuration says.
C30_SameLocation ==
    Current # NoOp =>
        LET location == LocationFor(Current.cv, Current.before)
        IN  /\ Current.loaded = Held(Current.before, location)
            /\ pc \in {"save_write", "save_return"} => pending.path = location
            /\ (pc = "idle" /\ Current.kind = "miss") => files[location] = RecordFile(Current.built)

\* C30 for the calls whose configuration designates the file that the
\* process-wide one does
C30_SingletonLocation ==
    (Current # NoOp /\ Current.cv.cache_location = Current.singleton.cache_location)
        => C30_SameLocation

(***************************************************************************)
(* Two invocations at once on one cache file.  pc, pending and last belong *)
(* to the invocation that is running; arg holds those of the other one,    *)
(* and a switch of the processor exchanges them, so that the steps of the  *)
(* two interleave in every order.                                          *)
(***************************************************************************)
Waiting == [pc |-> "idle", pending |-> NoOp, last |-> NoOp]

\* the operating system runs the other invocation
Switch ==
    /\ pc' = arg.pc
    /\ pending' = arg.pending
    /\ last' = arg.last
    /\ arg' = [pc |-> pc, pending |-> pending, last |-> last]
    /\ UNCHANGED <<fs, now, config, files, medium, ret>>

InitRace ==
    /\ fs \in {f \in AllFs : f[3] = "file"}
    /\ now = 0
    /\ config \in ConfigsOver({"/m"}, {E2}, {TRUE}, {MaxTtl}, {NoLocation})
    /\ files = [l \in Locations |-> Absent]
    /\ medium = [l \in Locations |-> "ok"]
    /\ pc = "idle"
    /\ pending = NoOp
    /\ last = NoOp
    /\ arg = Waiting
    /\ ret = Idle

NextRace ==
    \/ Find
    \/ SaveOpen
    \/ SaveWrite
    \/ Return
    \/ Switch

SpecRace == InitRace /\ [][NextRace]_vars

\* the outcomes of the calls the two invocations completed last
Completed == {o \in {last, arg.last} : o.op = "find"}

BothFinished == pc = "idle" /\ arg.pc = "idle" /\ last.op = "find" /\ arg.last.op = "find"

\* neither invocation fails, loads a partial record or returns a list that
\* is not that of its own scan or of a valid record
Undisturbed ==
    \A o \in Completed :
        /\ o.kind \in {"hit", "miss"}
        /\ o.loaded = None \/ (o.loaded.kind = "record" /\ RequiredKeys \subseteq o.loaded.rec.keys)
        /\ o.before["new"].kind \in {"partial", "garbage"} => (o.loaded = None /\ o.kind = "miss")
        /\ o.kind = "miss" =>
              /\ o.loaded = None \/ ~IsCacheValid(o.loaded.rec, o.dir, o.cv, o.t)
              /\ o.result = IterMovieFiles(o.fsBefore, o.dir, o.exts, o.follow)
        /\ o.kind = "hit" =>
              /\ IsCacheValid(o.loaded.rec, o.dir, o.cv, o.t)
              /\ Range(o.result) \subseteq Range(PathsOf(o.loaded.rec))

====
